---- MODULE Spec2Model ----
(***************************************************************************)
(* The robust token tracker (src/robust-tracker.js) and its store          *)
(* (src/database.js) as a state machine.                                   *)
(*                                                                         *)
(* The external writer owns ~/.claude.json; the tracker polls it.  One     *)
(* reconciliation cycle (processAllSessions) is modelled stepwise: the     *)
(* read of the file, one step per project entry (the await of              *)
(* processSession), and the completion of the poll callback.               *)
(*                                                                         *)
(* Cost is counted in units of 0.0000005 USD, so that the comparison       *)
(* epsilon 0.000001 is CostEpsilon = 2 units.  Time is a logical clock.    *)
(***************************************************************************)
EXTENDS Integers, Sequences, FiniteSets, TLC

\* ------------------------------------------------------------------ bounds
MaxTok == 2
MaxWrites == 2
MaxClock == 2
MaxStoreFailures == 1

\* ------------------------------------------------------- program constants
maxErrors == 10
ActiveInterval == 500
IdleInterval == 2000
CostEpsilon == 2

\* --------------------------------------------------------------- universes
Projects == {"p1", "p2"}
ProjectOrder == <<"p1", "p2">>
SessionIds == {"s1", "s2"}
NoSession == "none"

\* A key of a project record is either missing (<<>>) or holds a number <<n>>.
Missing == <<>>
Some(n) == <<n>>

CountKeys ==
  {"lastTotalInputTokens", "lastTotalOutputTokens",
   "lastTotalCacheCreationInputTokens", "lastTotalCacheReadInputTokens",
   "lastAPIDuration", "lastDuration", "lastLinesAdded", "lastLinesRemoved",
   "lastTotalWebSearchRequests"}

\* The keys the external writer changes in this model; every other key of a
\* project record stays as the record was created.
WriterKeys == {"lastTotalInputTokens", "lastCost", "lastLinesAdded"}

\* Costs reach one unit beyond the comparison epsilon.
KeyValues(k) == IF k = "lastCost" THEN 1..(CostEpsilon + 1) ELSE 1..MaxTok

\* A project entry as the writer first creates it: only the session id.
FreshProject(sid) ==
  [lastSessionId |-> sid,
   lastTotalInputTokens |-> Missing,
   lastTotalOutputTokens |-> Missing,
   lastTotalCacheCreationInputTokens |-> Missing,
   lastTotalCacheReadInputTokens |-> Missing,
   lastCost |-> Missing,
   lastAPIDuration |-> Missing,
   lastDuration |-> Missing,
   lastLinesAdded |-> Missing,
   lastLinesRemoved |-> Missing,
   lastTotalWebSearchRequests |-> Missing]

\* ------------------------------------------------------------------- state
VARIABLES
  fileStatus,        \* ~/.claude.json: "absent", "malformed", "noprojects", "ok"
  fileProjects,      \* its projects object: project path -> project record
  writes,            \* number of writes the external writer has made
  seenWrites,        \* value of writes when the latest successful cycle read the file (-1: none yet)
  storeFailures,     \* number of store writes that have raised
  now,               \* logical clock read by new Date()
  started,           \* start() has run
  exited,            \* process.exit(0) has run
  sessionSnapshots,  \* Map sessionId -> last known snapshot
  isProcessing,
  pollInterval,      \* handle of the timer last armed (0: null)
  timers,            \* handles of the armed repeating timers
  currentInterval,   \* closure variable of startAdaptivePolling
  activeSessions,    \* Set of project paths
  consecutiveErrors,
  pc,                \* "idle" or "cycle": position of the poll in flight
  configData,        \* the projects object parsed by the cycle in flight
  entries,           \* project paths the cycle in flight has still to visit
  currentProjectPaths,
  cycleStartSnapshots, \* sessionSnapshots as the cycle in flight found it
  cycleStartActive,  \* activeSessions as the cycle in flight found it
  removedLog,        \* paths logged "Removed inactive session" by the latest poll
  snapshotsAtLastSuccess, \* sessionSnapshots when start() or the latest completed cycle ended
  lastPoll,          \* how the latest poll callback ended
  dbOpen,
  sessions,          \* table sessions: id -> row
  conversations,     \* table conversations, in insertion order
  session_snapshots, \* table session_snapshots, in insertion order
  previousState,     \* legacy tracker: Map project path -> previous token data
  legacyStarted      \* legacy tracker: start() has run and the process lives

vars ==
  <<fileStatus, fileProjects, writes, seenWrites, storeFailures, now, started, exited, sessionSnapshots,
    isProcessing, pollInterval, timers, currentInterval, activeSessions,
    consecutiveErrors, pc, configData, entries, currentProjectPaths,
    cycleStartSnapshots, cycleStartActive, removedLog, snapshotsAtLastSuccess, lastPoll,
    dbOpen, sessions, conversations, session_snapshots, previousState, legacyStarted>>

legacyVars == <<previousState, legacyStarted>>
fileVars == <<fileStatus, fileProjects, writes>>
storeVars == <<sessions, conversations, session_snapshots>>
registryVars == <<sessionSnapshots, activeSessions>>
cycleVars ==
  <<pc, configData, entries, currentProjectPaths, cycleStartSnapshots, cycleStartActive>>
timerVars == <<pollInterval, timers, currentInterval>>

\* ---------------------------------------------------------- pure functions
\* JavaScript's  x || 0  on a key that is missing or holds a number.
OrZero(v) == IF v = Missing THEN 0 ELSE v[1]

Abs(x) == IF x < 0 THEN -x ELSE x

extractCompleteSnapshot(projectData, t) ==
  [inputTokens |-> OrZero(projectData.lastTotalInputTokens),
   outputTokens |-> OrZero(projectData.lastTotalOutputTokens),
   cacheCreationTokens |-> OrZero(projectData.lastTotalCacheCreationInputTokens),
   cacheReadTokens |-> OrZero(projectData.lastTotalCacheReadInputTokens),
   cost |-> OrZero(projectData.lastCost),
   timestamp |-> t,
   apiDuration |-> OrZero(projectData.lastAPIDuration),
   totalDuration |-> OrZero(projectData.lastDuration),
   linesAdded |-> OrZero(projectData.lastLinesAdded),
   linesRemoved |-> OrZero(projectData.lastLinesRemoved),
   webSearchRequests |-> OrZero(projectData.lastTotalWebSearchRequests)]

\* Mutant of hasAnyTokenChange: the cost test is >= instead of >.
hasAnyTokenChangeInclusive(previous, current) ==
  \/ current.inputTokens # previous.inputTokens
  \/ current.outputTokens # previous.outputTokens
  \/ current.cacheCreationTokens # previous.cacheCreationTokens
  \/ current.cacheReadTokens # previous.cacheReadTokens
  \/ Abs(current.cost - previous.cost) >= CostEpsilon
  \/ current.linesAdded # previous.linesAdded
  \/ current.linesRemoved # previous.linesRemoved
  \/ current.webSearchRequests # previous.webSearchRequests

hasAnyTokenChange(previous, current) ==
  \/ current.inputTokens # previous.inputTokens
  \/ current.outputTokens # previous.outputTokens
  \/ current.cacheCreationTokens # previous.cacheCreationTokens
  \/ current.cacheReadTokens # previous.cacheReadTokens
  \/ Abs(current.cost - previous.cost) > CostEpsilon
  \/ current.linesAdded # previous.linesAdded
  \/ current.linesRemoved # previous.linesRemoved
  \/ current.webSearchRequests # previous.webSearchRequests

\* Mutant of calculatePreciseDeltas: the operands are swapped.
calculatePreciseDeltasSwapped(previous, current) ==
  [input |-> previous.inputTokens - current.inputTokens,
   output |-> previous.outputTokens - current.outputTokens,
   cacheCreation |-> previous.cacheCreationTokens - current.cacheCreationTokens,
   cacheRead |-> previous.cacheReadTokens - current.cacheReadTokens,
   cost |-> previous.cost - current.cost]

\* Mutant of calculatePreciseDeltas: negative differences are clamped to zero.
calculatePreciseDeltasClamped(previous, current) ==
  [input |-> IF current.inputTokens > previous.inputTokens
               THEN current.inputTokens - previous.inputTokens ELSE 0,
   output |-> IF current.outputTokens > previous.outputTokens
                THEN current.outputTokens - previous.outputTokens ELSE 0,
   cacheCreation |-> IF current.cacheCreationTokens > previous.cacheCreationTokens
                       THEN current.cacheCreationTokens - previous.cacheCreationTokens ELSE 0,
   cacheRead |-> IF current.cacheReadTokens > previous.cacheReadTokens
                   THEN current.cacheReadTokens - previous.cacheReadTokens ELSE 0,
   cost |-> IF current.cost > previous.cost THEN current.cost - previous.cost ELSE 0]

calculatePreciseDeltas(previous, current) ==
  [input |-> current.inputTokens - previous.inputTokens,
   output |-> current.outputTokens - previous.outputTokens,
   cacheCreation |-> current.cacheCreationTokens - previous.cacheCreationTokens,
   cacheRead |-> current.cacheReadTokens - previous.cacheReadTokens,
   cost |-> current.cost - previous.cost]

\* ------------------------------------------------------------------- store
\* Mutant of getOrCreateSession: INSERT OR REPLACE, an upsert.
getOrCreateSessionUpsert(tbl, sessionId, projectPath, t) ==
  [s \in DOMAIN tbl \cup {sessionId} |->
     IF s = sessionId
       THEN [project_path |-> projectPath,
             started_at |-> t,
             ended_at |-> 0,
             total_input_tokens |-> 0,
             total_output_tokens |-> 0,
             total_cache_creation_tokens |-> 0,
             total_cache_read_tokens |-> 0,
             total_cost_usd |-> 0,
             api_duration_ms |-> 0,
             total_duration_ms |-> 0,
             lines_added |-> 0,
             lines_removed |-> 0,
             web_search_requests |-> 0]
       ELSE tbl[s]]

\* TokenDatabase.getOrCreateSession: INSERT only when no row has this id.
getOrCreateSession(tbl, sessionId, projectPath, t) ==
  IF sessionId \in DOMAIN tbl
    THEN tbl
    ELSE tbl @@ (sessionId :>
           [project_path |-> projectPath,
            started_at |-> t,
            ended_at |-> 0,
            total_input_tokens |-> 0,
            total_output_tokens |-> 0,
            total_cache_creation_tokens |-> 0,
            total_cache_read_tokens |-> 0,
            total_cost_usd |-> 0,
            api_duration_ms |-> 0,
            total_duration_ms |-> 0,
            lines_added |-> 0,
            lines_removed |-> 0,
            web_search_requests |-> 0])

\* Mutant of recordSnapshot: the row replaces the session's earlier rows.
recordSnapshotReplacing(tbl, sessionId, projectPath, data, t) ==
  Append(SelectSeq(tbl, LAMBDA r : r.session_id # sessionId),
    [session_id |-> sessionId,
     project_path |-> projectPath,
     timestamp |-> t,
     raw_data |-> data,
     input_tokens |-> OrZero(data.lastTotalInputTokens),
     output_tokens |-> OrZero(data.lastTotalOutputTokens),
     cache_creation_tokens |-> OrZero(data.lastTotalCacheCreationInputTokens),
     cache_read_tokens |-> OrZero(data.lastTotalCacheReadInputTokens),
     cost_usd |-> OrZero(data.lastCost)])

\* Mutant of recordSnapshot: the row is not inserted.
recordSnapshotDropped(tbl, sessionId, projectPath, data, t) == tbl

\* TokenDatabase.recordSnapshot: one INSERT into session_snapshots.
recordSnapshot(tbl, sessionId, projectPath, data, t) ==
  Append(tbl,
    [session_id |-> sessionId,
     project_path |-> projectPath,
     timestamp |-> t,
     raw_data |-> data,
     input_tokens |-> OrZero(data.lastTotalInputTokens),
     output_tokens |-> OrZero(data.lastTotalOutputTokens),
     cache_creation_tokens |-> OrZero(data.lastTotalCacheCreationInputTokens),
     cache_read_tokens |-> OrZero(data.lastTotalCacheReadInputTokens),
     cost_usd |-> OrZero(data.lastCost)])

\* Mutant of updateSession: the cost column is left out of the UPDATE.
updateSessionWithoutCost(tbl, sessionId, data, t) ==
  IF sessionId \notin DOMAIN tbl
    THEN tbl
    ELSE [tbl EXCEPT ![sessionId] =
           [@ EXCEPT
              !.ended_at = t,
              !.total_input_tokens = OrZero(data.lastTotalInputTokens),
              !.total_output_tokens = OrZero(data.lastTotalOutputTokens),
              !.total_cache_creation_tokens = OrZero(data.lastTotalCacheCreationInputTokens),
              !.total_cache_read_tokens = OrZero(data.lastTotalCacheReadInputTokens),
              !.api_duration_ms = OrZero(data.lastAPIDuration),
              !.total_duration_ms = OrZero(data.lastDuration),
              !.lines_added = OrZero(data.lastLinesAdded),
              !.lines_removed = OrZero(data.lastLinesRemoved),
              !.web_search_requests = OrZero(data.lastTotalWebSearchRequests)]]

\* TokenDatabase.updateSession: UPDATE sessions ... WHERE id = ?
updateSession(tbl, sessionId, data, t) ==
  IF sessionId \notin DOMAIN tbl
    THEN tbl
    ELSE [tbl EXCEPT ![sessionId] =
           [@ EXCEPT
              !.ended_at = t,
              !.total_input_tokens = OrZero(data.lastTotalInputTokens),
              !.total_output_tokens = OrZero(data.lastTotalOutputTokens),
              !.total_cache_creation_tokens = OrZero(data.lastTotalCacheCreationInputTokens),
              !.total_cache_read_tokens = OrZero(data.lastTotalCacheReadInputTokens),
              !.total_cost_usd = OrZero(data.lastCost),
              !.api_duration_ms = OrZero(data.lastAPIDuration),
              !.total_duration_ms = OrZero(data.lastDuration),
              !.lines_added = OrZero(data.lastLinesAdded),
              !.lines_removed = OrZero(data.lastLinesRemoved),
              !.web_search_requests = OrZero(data.lastTotalWebSearchRequests)]]

\* SELECT COUNT(*) FROM conversations WHERE session_id = ?
conversationCount(tbl, sessionId) ==
  Cardinality({i \in 1..Len(tbl) : tbl[i].session_id = sessionId})

\* Mutant of recordConversation: the index counts the rows of every session.
recordConversationGlobalIndex(tbl, sessionId, deltaTokens) ==
  Append(tbl,
    [session_id |-> sessionId,
     conversation_index |-> Len(tbl) + 1,
     input_tokens |-> deltaTokens.input,
     output_tokens |-> deltaTokens.output,
     cache_creation_tokens |-> deltaTokens.cacheCreation,
     cache_read_tokens |-> deltaTokens.cacheRead,
     cost_usd |-> deltaTokens.cost])

\* TokenDatabase.recordConversation: one INSERT with index COUNT(*) + 1.
\* (deltaTokens.x || 0 is deltaTokens.x for every number.)
recordConversation(tbl, sessionId, deltaTokens) ==
  Append(tbl,
    [session_id |-> sessionId,
     conversation_index |-> conversationCount(tbl, sessionId) + 1,
     input_tokens |-> deltaTokens.input,
     output_tokens |-> deltaTokens.output,
     cache_creation_tokens |-> deltaTokens.cacheCreation,
     cache_read_tokens |-> deltaTokens.cacheRead,
     cost_usd |-> deltaTokens.cost])

\* The store writes of processSession, in program order.  failAt names the
\* write that raises (NoFailure: none does); a write that raises changes nothing.
NoFailure == "none"
SessionWrites ==
  <<"getOrCreateSession", "recordSnapshot", "recordConversation", "updateSession">>
WriteNames == {SessionWrites[i] : i \in 1..Len(SessionWrites)}
WritePos(w) == CHOOSE i \in 1..Len(SessionWrites) : SessionWrites[i] = w
\* Mutant of Done: the raw snapshot is inserted before the session row is
\* ensured, so it is kept when getOrCreateSession raises.
DoneSnapshotFirst(w, failAt) ==
  \/ failAt = NoFailure
  \/ WritePos(w) < WritePos(failAt)
  \/ w = "recordSnapshot" /\ failAt = "getOrCreateSession"

\* Whether write w is reached and succeeds when failAt is the write that raises.
Done(w, failAt) == failAt = NoFailure \/ WritePos(w) < WritePos(failAt)

\* A snapshot with every counter zero.
zeroSnapshot == extractCompleteSnapshot(FreshProject(NoSession), 0)

\* Mutant of sessionSnapshotsGet: a session without a stored snapshot is
\* given a baseline of zeros.
sessionSnapshotsGetOrZero(snaps, sessionId) ==
  IF sessionId \in DOMAIN snaps THEN <<snaps[sessionId]>> ELSE <<zeroSnapshot>>

\* this.sessionSnapshots.get(sessionId): <<>> is undefined.
sessionSnapshotsGet(snaps, sessionId) ==
  IF sessionId \in DOMAIN snaps THEN <<snaps[sessionId]>> ELSE <<>>

\* lastSnapshot && this.hasAnyTokenChange(lastSnapshot, currentSnapshot): line 165.
changeDetected(lastSnapshot, currentSnapshot) ==
  /\ lastSnapshot # <<>>
  /\ hasAnyTokenChange(lastSnapshot[1], currentSnapshot)

\* Mutant of processSession: the current snapshot is stored before the store
\* is written, so it is kept when a store write raises.
processSessionStoresFirst(projectPath, projectData, failAt) ==
  LET sessionId == projectData.lastSessionId
      currentSnapshot == extractCompleteSnapshot(projectData, now)
      lastSnapshot == sessionSnapshotsGet(sessionSnapshots, sessionId)
      changed == changeDetected(lastSnapshot, currentSnapshot)
  IN
  /\ failAt = "recordConversation" => changed
  /\ activeSessions' = activeSessions \cup {projectPath}
  /\ sessions' =
       LET s1 == IF Done("getOrCreateSession", failAt)
                   THEN getOrCreateSession(sessions, sessionId, projectPath, now)
                   ELSE sessions
       IN IF Done("updateSession", failAt)
            THEN updateSession(s1, sessionId, projectData, now)
            ELSE s1
  /\ session_snapshots' =
       IF Done("recordSnapshot", failAt)
         THEN recordSnapshot(session_snapshots, sessionId, projectPath, projectData, now)
         ELSE session_snapshots
  /\ conversations' =
       IF changed /\ Done("recordConversation", failAt)
         THEN recordConversation(conversations, sessionId,
                calculatePreciseDeltas(lastSnapshot[1], currentSnapshot))
         ELSE conversations
  /\ sessionSnapshots' =
       [s \in DOMAIN sessionSnapshots \cup {sessionId} |->
          IF s = sessionId THEN currentSnapshot ELSE sessionSnapshots[s]]

\* RobustClaudeTokenTracker.processSession(projectPath, projectData).
processSession(projectPath, projectData, failAt) ==
  LET sessionId == projectData.lastSessionId
      currentSnapshot == extractCompleteSnapshot(projectData, now)
      lastSnapshot == sessionSnapshotsGet(sessionSnapshots, sessionId)
      changed == changeDetected(lastSnapshot, currentSnapshot)
  IN
  /\ failAt = "recordConversation" => changed
  /\ activeSessions' = activeSessions \cup {projectPath}
  /\ sessions' =
       LET s1 == IF Done("getOrCreateSession", failAt)
                   THEN getOrCreateSession(sessions, sessionId, projectPath, now)
                   ELSE sessions
       IN IF Done("updateSession", failAt)
            THEN updateSession(s1, sessionId, projectData, now)
            ELSE s1
  /\ session_snapshots' =
       IF Done("recordSnapshot", failAt)
         THEN recordSnapshot(session_snapshots, sessionId, projectPath, projectData, now)
         ELSE session_snapshots
  /\ conversations' =
       IF changed /\ Done("recordConversation", failAt)
         THEN recordConversation(conversations, sessionId,
                calculatePreciseDeltas(lastSnapshot[1], currentSnapshot))
         ELSE conversations
  /\ sessionSnapshots' =
       IF failAt = NoFailure
         THEN [s \in DOMAIN sessionSnapshots \cup {sessionId} |->
                 IF s = sessionId THEN currentSnapshot ELSE sessionSnapshots[s]]
         ELSE sessionSnapshots

\* ----------------------------------------------------------------- helpers
\* Object.entries(projects): the project paths of obj in file order.
ObjectEntries(obj) == SelectSeq(ProjectOrder, LAMBDA p : p \in DOMAIN obj)

\* The project paths of obj that carry a session identifier.
WithSession(obj) == {p \in DOMAIN obj : obj[p].lastSessionId # NoSession}

\* The state between cycles: no parsed config is held.
cycleIdle ==
  /\ pc' = "idle"
  /\ configData' = <<>>
  /\ entries' = <<>>
  /\ currentProjectPaths' = {}
  /\ cycleStartSnapshots' = <<>>
  /\ cycleStartActive' = {}

\* ------------------------------------------------------------ initial state
initialFiles ==
  {[status |-> "absent", projects |-> <<>>],
   [status |-> "ok", projects |-> ("p1" :> FreshProject("s1"))]}

\* The state after construction, the file being f.
InitWith(f) ==
  /\ fileStatus = f.status /\ fileProjects = f.projects
  /\ writes = 0
  /\ seenWrites = -1
  /\ storeFailures = 0
  /\ now = 1
  /\ started = FALSE
  /\ exited = FALSE
  /\ sessionSnapshots = <<>>
  /\ isProcessing = FALSE
  /\ pollInterval = 0
  /\ timers = {}
  /\ currentInterval = 0
  /\ activeSessions = {}
  /\ consecutiveErrors = 0
  /\ pc = "idle"
  /\ configData = <<>>
  /\ entries = <<>>
  /\ currentProjectPaths = {}
  /\ cycleStartSnapshots = <<>>
  /\ cycleStartActive = {}
  /\ removedLog = {}
  /\ snapshotsAtLastSuccess = <<>>
  /\ lastPoll = "none"
  /\ dbOpen = TRUE
  /\ sessions = <<>>
  /\ conversations = <<>>
  /\ session_snapshots = <<>>
  /\ previousState = <<>>
  /\ legacyStarted = FALSE

Init == \E f \in initialFiles : InitWith(f)

\* --------------------------------------------------------- external writer
trackerVars ==
  <<seenWrites, storeFailures, now, started, exited, sessionSnapshots, isProcessing, pollInterval, timers,
    currentInterval, activeSessions, consecutiveErrors, pc, configData, entries,
    currentProjectPaths, cycleStartSnapshots, cycleStartActive, removedLog, snapshotsAtLastSuccess, lastPoll, dbOpen,
    sessions, conversations, session_snapshots, legacyVars>>

\* The writer's steps are taken between cycles, after start(): a cycle works on
\* its own parsed copy of the file, and the files start() can meet are those
\* of initialFiles.
WriterEnabled == writes < MaxWrites /\ pc = "idle" /\ started

\* The file is deleted, truncated mid-write, written without a projects key,
\* or written whole.
WriterSetStatus(st) ==
  /\ WriterEnabled
  /\ st # fileStatus
  /\ fileStatus' = st
  /\ writes' = writes + 1
  /\ UNCHANGED <<fileProjects, trackerVars>>

\* A project gets a session identifier, another one, or loses it.
WriterSetSession(p, sid) ==
  /\ WriterEnabled
  /\ fileStatus = "ok"
  /\ IF p \in DOMAIN fileProjects
       THEN /\ fileProjects[p].lastSessionId # sid
            /\ fileProjects' = [fileProjects EXCEPT ![p].lastSessionId = sid]
       ELSE fileProjects' = fileProjects @@ (p :> FreshProject(sid))
  /\ writes' = writes + 1
  /\ UNCHANGED <<fileStatus, trackerVars>>

\* One counter of a project entry is written.
WriterSetKey(p, k, v) ==
  /\ WriterEnabled
  /\ fileStatus = "ok"
  /\ p \in DOMAIN fileProjects
  /\ fileProjects[p][k] # Some(v)
  /\ fileProjects' = [fileProjects EXCEPT ![p][k] = Some(v)]
  /\ writes' = writes + 1
  /\ UNCHANGED <<fileStatus, trackerVars>>

\* A project entry disappears from the file.
WriterRemoveProject(p) ==
  /\ WriterEnabled
  /\ fileStatus = "ok"
  /\ p \in DOMAIN fileProjects
  /\ fileProjects' = [q \in DOMAIN fileProjects \ {p} |-> fileProjects[q]]
  /\ writes' = writes + 1
  /\ UNCHANGED <<fileStatus, trackerVars>>

\* ------------------------------------------------------------------ start()
\* The loop of captureInitialState over the entries seq, on the in-memory and
\* store state st; the write failW of project failP raises and ends the loop
\* (the catch is outside it).
RECURSIVE captureLoop(_, _, _, _)
captureLoop(seq, st, failP, failW) ==
  IF seq = <<>> THEN st
  ELSE
    LET projectPath == Head(seq)
        projectData == fileProjects[projectPath]
        sessionId == projectData.lastSessionId
        snapshot == extractCompleteSnapshot(projectData, now)
        st1 == [st EXCEPT
                  !.snaps = [s \in DOMAIN st.snaps \cup {sessionId} |->
                               IF s = sessionId THEN snapshot ELSE st.snaps[s]],
                  !.active = st.active \cup {projectPath}]
        st2 == [st1 EXCEPT
                  !.sessions = getOrCreateSession(st.sessions, sessionId, projectPath, now)]
        st3 == [st2 EXCEPT
                  !.raw = recordSnapshot(st.raw, sessionId, projectPath, projectData, now)]
    IN
    IF sessionId = NoSession THEN captureLoop(Tail(seq), st, failP, failW)
    ELSE IF projectPath = failP
           THEN (IF failW = "getOrCreateSession" THEN st1 ELSE st2)
           ELSE captureLoop(Tail(seq), st3, failP, failW)

captureInitialState(failP, failW) ==
  LET st0 == [snaps |-> sessionSnapshots, active |-> activeSessions,
              sessions |-> sessions, raw |-> session_snapshots]
      st == IF fileStatus = "ok"
              THEN captureLoop(ObjectEntries(fileProjects), st0, failP, failW)
              ELSE st0
  IN
  /\ sessionSnapshots' = st.snaps
  /\ activeSessions' = st.active
  /\ sessions' = st.sessions
  /\ session_snapshots' = st.raw
  /\ UNCHANGED conversations

startAdaptivePolling ==
  /\ currentInterval' = ActiveInterval
  /\ pollInterval' = pollInterval + 1
  /\ timers' = timers \cup {pollInterval + 1}

\* start(): captureInitialState, then startAdaptivePolling.  A missing or
\* malformed file and a raising store write are caught and logged.
Start(failP, failW) ==
  /\ ~started
  /\ ~exited
  /\ \/ failP = NoFailure /\ failW = NoFailure /\ UNCHANGED storeFailures
     \/ /\ fileStatus = "ok"
        /\ failP \in WithSession(fileProjects)
        /\ failW \in {"getOrCreateSession", "recordSnapshot"}
        /\ storeFailures < MaxStoreFailures
        /\ storeFailures' = storeFailures + 1
  /\ captureInitialState(failP, failW)
  /\ startAdaptivePolling
  /\ started' = TRUE
  /\ UNCHANGED <<fileVars, legacyVars, seenWrites, now, exited, isProcessing, consecutiveErrors, cycleVars,
                 removedLog, lastPoll, dbOpen>>
  /\ snapshotsAtLastSuccess' = sessionSnapshots'

\* ------------------------------------------------------------- poll callback
\* Mutant of shutdown: the timer is not cleared.
shutdownLeavesTimer ==
  /\ timers' = timers
  /\ dbOpen' = FALSE
  /\ exited' = TRUE
  /\ UNCHANGED <<pollInterval, currentInterval>>

\* shutdown(): clearInterval, db.close(), process.exit(0).
shutdown ==
  /\ timers' = IF pollInterval # 0 THEN timers \ {pollInterval} ELSE timers
  /\ dbOpen' = FALSE
  /\ exited' = TRUE
  /\ UNCHANGED <<pollInterval, currentInterval>>

\* Mutant of pollSucceeded: the counter is not reset.
pollSucceededNoReset(active) ==
  /\ consecutiveErrors' = consecutiveErrors
  /\ LET newInterval == IF active # {} THEN ActiveInterval ELSE IdleInterval
     IN IF newInterval # currentInterval
          THEN /\ currentInterval' = newInterval
               /\ timers' = (timers \ {pollInterval}) \cup {pollInterval + 1}
               /\ pollInterval' = pollInterval + 1
          ELSE UNCHANGED timerVars
  /\ UNCHANGED <<exited, dbOpen>>

\* Mutant of pollSucceeded: the interval is never adapted.
pollSucceededFixedInterval(active) ==
  /\ consecutiveErrors' = 0
  /\ UNCHANGED <<timerVars, exited, dbOpen>>

\* Mutant of pollSucceeded: the timer is replaced in every cycle.
pollSucceededAlwaysRearm(active) ==
  /\ consecutiveErrors' = 0
  /\ LET newInterval == IF active # {} THEN ActiveInterval ELSE IdleInterval
     IN /\ currentInterval' = newInterval
        /\ timers' = (timers \ {pollInterval}) \cup {pollInterval + 1}
        /\ pollInterval' = pollInterval + 1
  /\ UNCHANGED <<exited, dbOpen>>

\* Mutant of pollSucceeded: the new timer is created without clearing the
\* one armed before.
pollSucceededNoClear(active) ==
  /\ consecutiveErrors' = 0
  /\ LET newInterval == IF active # {} THEN ActiveInterval ELSE IdleInterval
     IN IF newInterval # currentInterval
          THEN /\ currentInterval' = newInterval
               /\ timers' = timers \cup {pollInterval + 1}
               /\ pollInterval' = pollInterval + 1
          ELSE UNCHANGED timerVars
  /\ UNCHANGED <<exited, dbOpen>>

\* The try branch of poll after processAllSessions has returned; active is
\* the value of activeSessions it reads.
pollSucceeded(active) ==
  /\ consecutiveErrors' = 0
  /\ LET newInterval == IF active # {} THEN ActiveInterval ELSE IdleInterval
     IN IF newInterval # currentInterval
          THEN /\ currentInterval' = newInterval
               /\ timers' = (timers \ {pollInterval}) \cup {pollInterval + 1}
               /\ pollInterval' = pollInterval + 1
          ELSE UNCHANGED timerVars
  /\ UNCHANGED <<exited, dbOpen>>

\* Mutant of pollFailed: the error is logged and not counted.
pollFailedNotCounted ==
  /\ consecutiveErrors' = consecutiveErrors
  /\ UNCHANGED <<timerVars, exited, dbOpen>>

\* Mutant of pollFailed: the ceiling is compared with > instead of >=.
pollFailedLateCeiling ==
  /\ consecutiveErrors' = consecutiveErrors + 1
  /\ IF consecutiveErrors + 1 > maxErrors
       THEN shutdown
       ELSE UNCHANGED <<timerVars, exited, dbOpen>>

\* The catch branch of poll.
pollFailed ==
  /\ consecutiveErrors' = consecutiveErrors + 1
  /\ IF consecutiveErrors + 1 >= maxErrors
       THEN shutdown
       ELSE UNCHANGED <<timerVars, exited, dbOpen>>

\* A timer can call poll.
PollEnabled == started /\ ~exited /\ timers # {}

\* Mutant of cycleInProgress: the guard is missing.
cycleInProgressNoGuard == FALSE

\* processAllSessions returns at once when this holds (line 106).
cycleInProgress == isProcessing

\* Mutant of PollSourceAbsent: the existence test is missing, so readFileSync
\* raises and the cycle fails.
PollSourceAbsentRaises ==
  /\ PollEnabled /\ ~cycleInProgress
  /\ fileStatus = "absent"
  /\ pollFailed
  /\ isProcessing' = FALSE
  /\ lastPoll' = "failed"
  /\ removedLog' = {}
  /\ UNCHANGED snapshotsAtLastSuccess
  /\ UNCHANGED <<fileVars, legacyVars, seenWrites, storeFailures, now, started, registryVars,
                 cycleVars, storeVars>>

\* poll: the file does not exist (line 110).
PollSourceAbsent ==
  /\ PollEnabled /\ ~cycleInProgress
  /\ fileStatus = "absent"
  /\ activeSessions' = {}
  /\ pollSucceeded({})
  /\ isProcessing' = FALSE
  /\ lastPoll' = "ok"
  /\ seenWrites' = writes
  /\ removedLog' = {}
  /\ snapshotsAtLastSuccess' = sessionSnapshots
  /\ UNCHANGED <<fileVars, legacyVars, storeFailures, now, started, sessionSnapshots,
                 cycleVars, storeVars>>

\* poll: the file holds no projects key (line 117).
PollNoProjects ==
  /\ PollEnabled /\ ~cycleInProgress
  /\ fileStatus = "noprojects"
  /\ activeSessions' = {}
  /\ pollSucceeded({})
  /\ isProcessing' = FALSE
  /\ lastPoll' = "ok"
  /\ seenWrites' = writes
  /\ removedLog' = {}
  /\ snapshotsAtLastSuccess' = sessionSnapshots
  /\ UNCHANGED <<fileVars, legacyVars, storeFailures, now, started, sessionSnapshots,
                 cycleVars, storeVars>>

\* Mutant of PollSourceMalformed: the parse error is handled like a missing
\* file, clearing activeSessions before it is raised.
PollSourceMalformedClears ==
  /\ PollEnabled /\ ~cycleInProgress
  /\ fileStatus = "malformed"
  /\ pollFailed
  /\ activeSessions' = {}
  /\ isProcessing' = FALSE
  /\ lastPoll' = "failed"
  /\ removedLog' = {}
  /\ UNCHANGED snapshotsAtLastSuccess
  /\ UNCHANGED <<fileVars, legacyVars, seenWrites, storeFailures, now, started, sessionSnapshots,
                 cycleVars, storeVars>>

\* poll: JSON.parse raises (line 115); finally resets isProcessing.
PollSourceMalformed ==
  /\ PollEnabled /\ ~cycleInProgress
  /\ fileStatus = "malformed"
  /\ pollFailed
  /\ isProcessing' = FALSE
  /\ lastPoll' = "failed"
  /\ removedLog' = {}
  /\ UNCHANGED snapshotsAtLastSuccess
  /\ UNCHANGED <<fileVars, legacyVars, seenWrites, storeFailures, now, started, registryVars,
                 cycleVars, storeVars>>

\* poll: the file is read and parsed once; the loop over its entries begins.
PollReadConfig ==
  /\ PollEnabled /\ ~cycleInProgress
  /\ fileStatus = "ok"
  /\ now <= MaxClock
  /\ isProcessing' = TRUE
  /\ pc' = "cycle"
  /\ configData' = fileProjects
  /\ entries' = ObjectEntries(fileProjects)
  /\ currentProjectPaths' = {}
  /\ cycleStartSnapshots' = sessionSnapshots
  /\ cycleStartActive' = activeSessions
  /\ removedLog' = {}
  /\ UNCHANGED snapshotsAtLastSuccess
  /\ UNCHANGED <<fileVars, legacyVars, seenWrites, storeFailures, now, started, exited, registryVars, timerVars,
                 consecutiveErrors, lastPoll, dbOpen, storeVars>>

\* One iteration of the loop, for an entry with a session identifier, whose
\* store writes all succeed.
ProcessEntry ==
  /\ pc = "cycle" /\ ~exited
  /\ entries # <<>>
  /\ LET projectPath == Head(entries) IN
     /\ configData[projectPath].lastSessionId # NoSession
     /\ processSession(projectPath, configData[projectPath], NoFailure)
     /\ currentProjectPaths' = currentProjectPaths \cup {projectPath}
  /\ entries' = Tail(entries)
  /\ UNCHANGED <<fileVars, legacyVars, seenWrites, storeFailures, now, started, exited, isProcessing, timerVars,
                 consecutiveErrors, pc, configData, cycleStartSnapshots, cycleStartActive,
                 removedLog, snapshotsAtLastSuccess,
                 lastPoll, dbOpen>>

\* One iteration of the loop, for an entry without a session identifier.
ProcessEntryNoSession ==
  /\ pc = "cycle" /\ ~exited
  /\ entries # <<>>
  /\ LET projectPath == Head(entries) IN
     /\ configData[projectPath].lastSessionId = NoSession
     /\ activeSessions' = activeSessions \ {projectPath}
     /\ currentProjectPaths' = currentProjectPaths \cup {projectPath}
  /\ entries' = Tail(entries)
  /\ UNCHANGED <<fileVars, legacyVars, seenWrites, storeFailures, now, started, exited, sessionSnapshots, isProcessing,
                 timerVars, consecutiveErrors, pc, configData, cycleStartSnapshots,
                 cycleStartActive,
                 removedLog, snapshotsAtLastSuccess, lastPoll, dbOpen, storeVars>>

\* Mutant of ProcessEntryFails: the error leaves processAllSessions without
\* the finally block.
ProcessEntryFailsNoFinally(failAt) ==
  /\ pc = "cycle" /\ ~exited
  /\ entries # <<>>
  /\ storeFailures < MaxStoreFailures
  /\ storeFailures' = storeFailures + 1
  /\ LET projectPath == Head(entries) IN
     /\ configData[projectPath].lastSessionId # NoSession
     /\ processSession(projectPath, configData[projectPath], failAt)
  /\ isProcessing' = isProcessing
  /\ cycleIdle
  /\ pollFailed
  /\ lastPoll' = "failed"
  /\ now' = now + 1
  /\ UNCHANGED <<fileVars, legacyVars, seenWrites, started, removedLog, snapshotsAtLastSuccess>>

\* One iteration of the loop in which the store write failAt raises: the
\* error leaves processAllSessions through finally and reaches poll's catch.
ProcessEntryFails(failAt) ==
  /\ pc = "cycle" /\ ~exited
  /\ entries # <<>>
  /\ storeFailures < MaxStoreFailures
  /\ storeFailures' = storeFailures + 1
  /\ LET projectPath == Head(entries) IN
     /\ configData[projectPath].lastSessionId # NoSession
     /\ processSession(projectPath, configData[projectPath], failAt)
  /\ isProcessing' = FALSE
  /\ cycleIdle
  /\ pollFailed
  /\ lastPoll' = "failed"
  /\ now' = now + 1
  /\ UNCHANGED <<fileVars, legacyVars, seenWrites, started, removedLog, snapshotsAtLastSuccess>>

\* Mutant of PollFinish: the clean-up loop over activeSessions is missing.
PollFinishNoCleanup ==
  /\ pc = "cycle" /\ ~exited
  /\ entries = <<>>
  /\ activeSessions' = activeSessions
  /\ removedLog' = {}
  /\ snapshotsAtLastSuccess' = sessionSnapshots
  /\ isProcessing' = FALSE
  /\ pollSucceeded(activeSessions)
  /\ cycleIdle
  /\ lastPoll' = "ok"
  /\ now' = IF WithSession(configData) # {} THEN now + 1 ELSE now
  /\ seenWrites' = writes
  /\ UNCHANGED <<fileVars, legacyVars, storeFailures, started, sessionSnapshots, storeVars>>

\* Mutant of PollFinish: the clean-up also evicts from the registry the
\* sessions that no entry of the reading carries.
PollFinishEvicts ==
  /\ pc = "cycle" /\ ~exited
  /\ entries = <<>>
  /\ activeSessions' = activeSessions \cap currentProjectPaths
  /\ sessionSnapshots' =
       [s \in {configData[q].lastSessionId : q \in WithSession(configData)}
              \cap DOMAIN sessionSnapshots |-> sessionSnapshots[s]]
  /\ removedLog' = activeSessions \ currentProjectPaths
  /\ snapshotsAtLastSuccess' = sessionSnapshots'
  /\ isProcessing' = FALSE
  /\ pollSucceeded(activeSessions \cap currentProjectPaths)
  /\ cycleIdle
  /\ lastPoll' = "ok"
  /\ now' = IF WithSession(configData) # {} THEN now + 1 ELSE now
  /\ seenWrites' = writes
  /\ UNCHANGED <<fileVars, legacyVars, storeFailures, started, storeVars>>

\* The loop is over: inactive paths are removed, finally resets isProcessing,
\* and poll's try branch completes.
PollFinish ==
  /\ pc = "cycle" /\ ~exited
  /\ entries = <<>>
  /\ activeSessions' = activeSessions \cap currentProjectPaths
  /\ removedLog' = activeSessions \ currentProjectPaths
  /\ snapshotsAtLastSuccess' = sessionSnapshots
  /\ isProcessing' = FALSE
  /\ pollSucceeded(activeSessions \cap currentProjectPaths)
  /\ cycleIdle
  /\ lastPoll' = "ok"
  /\ now' = IF WithSession(configData) # {} THEN now + 1 ELSE now
  /\ seenWrites' = writes
  /\ UNCHANGED <<fileVars, legacyVars, storeFailures, started, sessionSnapshots, storeVars>>

\* poll fires while a cycle is in flight: processAllSessions returns at once
\* (line 106) and poll's try branch completes.
PollSkipped ==
  /\ PollEnabled /\ cycleInProgress
  /\ pollSucceeded(activeSessions)
  /\ lastPoll' = "skipped"
  /\ UNCHANGED <<fileVars, legacyVars, seenWrites, storeFailures, now, started, registryVars, isProcessing, cycleVars,
                 removedLog, snapshotsAtLastSuccess, storeVars>>

\* SIGINT between cycles.
Shutdown ==
  /\ started /\ ~exited
  /\ pc = "idle"
  /\ shutdown
  /\ UNCHANGED <<fileVars, legacyVars, seenWrites, storeFailures, now, started, registryVars, isProcessing,
                 consecutiveErrors, cycleVars, removedLog, snapshotsAtLastSuccess, lastPoll, storeVars>>

\* ------------------------------------------------------------ specifications
Writer ==
  \/ \E st \in {"absent", "malformed", "noprojects", "ok"} : WriterSetStatus(st)
  \/ \E p \in Projects, sid \in SessionIds \cup {NoSession} : WriterSetSession(p, sid)
  \/ \E p \in Projects, k \in WriterKeys : \E v \in KeyValues(k) : WriterSetKey(p, k, v)
  \/ \E p \in Projects : WriterRemoveProject(p)

\* The steps of one poll callback, once it has read the file.
CycleStep ==
  \/ ProcessEntry
  \/ ProcessEntryNoSession
  \/ \E failAt \in WriteNames : ProcessEntryFails(failAt)
  \/ PollFinish

StartStep ==
  \E failP \in Projects \cup {NoFailure}, failW \in WriteNames \cup {NoFailure} :
    Start(failP, failW)

\* No timer callback runs while a poll callback is in flight.
RunToCompletion == pc = "idle"

Next ==
  \/ Writer
  \/ StartStep
  \/ RunToCompletion /\ PollSourceAbsent
  \/ RunToCompletion /\ PollNoProjects
  \/ RunToCompletion /\ PollSourceMalformed
  \/ RunToCompletion /\ PollReadConfig
  \/ ProcessEntry
  \/ ProcessEntryNoSession
  \/ \E failAt \in WriteNames : ProcessEntryFails(failAt)
  \/ PollFinish

\* Node runs a poll callback to completion before the next timer callback.
Spec == Init /\ [][Next]_vars

\* Every await is taken as a point where a timer callback may run.
NextAsync ==
  \/ Writer
  \/ StartStep
  \/ PollSourceAbsent
  \/ PollNoProjects
  \/ PollSourceMalformed
  \/ PollReadConfig
  \/ PollSkipped
  \/ CycleStep
SpecAsync == Init /\ [][NextAsync]_vars

\* The user may interrupt the tracker between cycles.
NextSigint == Next \/ Shutdown
SpecSigint == Init /\ [][NextSigint]_vars

\* --------------------------------------------- one observation, any counters
\* The project records of one session whose keys are each missing or set; the
\* cost reaches from zero to beyond the epsilon on both sides of BaseCost.
BaseCost == CostEpsilon + 1
ObservedCosts == {Missing} \cup {Some(c) : c \in 1..(2 * BaseCost)}
ObservedRecords(sid) ==
  {[lastSessionId |-> sid,
    lastTotalInputTokens |-> i, lastTotalOutputTokens |-> o,
    lastTotalCacheCreationInputTokens |-> cc, lastTotalCacheReadInputTokens |-> cr,
    lastCost |-> c, lastAPIDuration |-> ad, lastDuration |-> du,
    lastLinesAdded |-> la, lastLinesRemoved |-> lr,
    lastTotalWebSearchRequests |-> ws] :
     i \in {Missing, Some(1)}, o \in {Missing, Some(1)},
     cc \in {Missing, Some(1)}, cr \in {Missing, Some(1)},
     c \in ObservedCosts,
     ad \in {Missing, Some(1)}, du \in {Missing, Some(1)},
     la \in {Missing, Some(1)}, lr \in {Missing, Some(1)},
     ws \in {Missing, Some(1)}}

\* The record start() captured: every key missing, or every key set.
CapturedRecords(sid) ==
  {FreshProject(sid),
   [k \in DOMAIN FreshProject(sid) |->
      IF k = "lastSessionId" THEN sid
      ELSE IF k = "lastCost" THEN Some(BaseCost) ELSE Some(1)]}

\* The tracker after start() has captured project p1 with session s1, the
\* writer having rewritten the entry since.
InitObserve ==
  \E captured \in CapturedRecords("s1"), written \in ObservedRecords("s1") :
    /\ fileStatus = "ok"
    /\ fileProjects = ("p1" :> written)
    /\ writes = 1
    /\ seenWrites = -1
    /\ storeFailures = 0
    /\ now = 2
    /\ started = TRUE
    /\ exited = FALSE
    /\ sessionSnapshots = ("s1" :> extractCompleteSnapshot(captured, 1))
    /\ isProcessing = FALSE
    /\ pollInterval = 1
    /\ timers = {1}
    /\ currentInterval = ActiveInterval
    /\ activeSessions = {"p1"}
    /\ consecutiveErrors = 0
    /\ pc = "idle"
    /\ configData = <<>>
    /\ entries = <<>>
    /\ currentProjectPaths = {}
    /\ cycleStartSnapshots = <<>>
    /\ cycleStartActive = {}
    /\ removedLog = {}
    /\ snapshotsAtLastSuccess = ("s1" :> extractCompleteSnapshot(captured, 1))
    /\ lastPoll = "none"
    /\ dbOpen = TRUE
    /\ sessions = getOrCreateSession(<<>>, "s1", "p1", 1)
    /\ conversations = <<>>
    /\ session_snapshots = recordSnapshot(<<>>, "s1", "p1", captured, 1)
    /\ previousState = <<>>
    /\ legacyStarted = FALSE

\* The cycles over that source.
NextObserve ==
  \/ RunToCompletion /\ PollReadConfig
  \/ ProcessEntry
  \/ PollFinish
SpecObserve == InitObserve /\ [][NextObserve]_vars

\* ------------------------------------------- a writer that only moves counts
\* The file holds one project with a session when the tracker starts; the
\* writer then only changes exactly compared counters of that project, and
\* no store write raises.
ExactKeys == {"lastTotalInputTokens", "lastLinesAdded"}
InitCounterWrites == Init /\ fileStatus = "ok"
NextCounterWrites ==
  \/ Start(NoFailure, NoFailure)
  \/ \E k \in ExactKeys : \E v \in KeyValues(k) : WriterSetKey("p1", k, v)
  \/ RunToCompletion /\ PollReadConfig
  \/ ProcessEntry
  \/ PollFinish
SpecCounterWrites == InitCounterWrites /\ [][NextCounterWrites]_vars

\* ------------------------------------------------- two sessions at the start
\* The file holds two projects, each with a session of its own, when the
\* tracker starts.
twoSessionsFile ==
  [status |-> "ok",
   projects |-> ("p1" :> FreshProject("s1")) @@ ("p2" :> FreshProject("s2"))]
InitRecovery == InitWith(twoSessionsFile)
SpecRecovery == InitRecovery /\ [][Next]_vars

\* ------------------------------------------------------- the legacy tracker
\* ClaudeTokenTracker (tracker.js): a file watcher instead of a poll, one
\* previous state per project path, clamped deltas.  It writes the same store.
\* Its handlers run to completion: every await in them resolves by microtask.

\* Directories under codeBasePath, in readdirSync order.  p1 and d1 lie under
\* the same root; p2, a project of the config file, lies elsewhere.
CodeDirs == {"p1", "d1"}
CodeDirOrder == <<"p1", "d1">>
LegacyPaths == Projects \cup CodeDirs

\* Buffer.from(projectPath).toString('base64').slice(0, 8): the base64 text of
\* the first six bytes of the path.
Base64Head(projectPath) ==
  IF projectPath \in {"p1", "d1"} THEN "L1VzZXJz" ELSE "L29wdC9w"
PlaceholderId(projectPath) == "placeholder-" \o Base64Head(projectPath)
\* id LIKE 'placeholder-%'
IsPlaceholder(id) == id \in {PlaceholderId(p) : p \in LegacyPaths}

extractTokenData(projectData) ==
  [inputTokens |-> OrZero(projectData.lastTotalInputTokens),
   outputTokens |-> OrZero(projectData.lastTotalOutputTokens),
   cacheCreationTokens |-> OrZero(projectData.lastTotalCacheCreationInputTokens),
   cacheReadTokens |-> OrZero(projectData.lastTotalCacheReadInputTokens),
   cost |-> OrZero(projectData.lastCost),
   sessionId |-> projectData.lastSessionId]

Max(a, b) == IF a >= b THEN a ELSE b

\* Mutant of calculateDeltas: the raw differences, nothing clamped.
calculateDeltasRaw(previous, current) ==
  [input |-> current.inputTokens - previous.inputTokens,
   output |-> current.outputTokens - previous.outputTokens,
   cacheCreation |-> current.cacheCreationTokens - previous.cacheCreationTokens,
   cacheRead |-> current.cacheReadTokens - previous.cacheReadTokens,
   cost |-> current.cost - previous.cost]

calculateDeltas(previous, current) ==
  [input |-> Max(0, current.inputTokens - previous.inputTokens),
   output |-> Max(0, current.outputTokens - previous.outputTokens),
   cacheCreation |-> Max(0, current.cacheCreationTokens - previous.cacheCreationTokens),
   cacheRead |-> Max(0, current.cacheReadTokens - previous.cacheReadTokens),
   cost |-> Max(0, current.cost - previous.cost)]

\* Mutant of hasSignificantChange: any positive field counts.
hasSignificantChangeAnyField(deltaTokens) ==
  \/ deltaTokens.input > 0 \/ deltaTokens.output > 0
  \/ deltaTokens.cacheCreation > 0 \/ deltaTokens.cacheRead > 0
  \/ deltaTokens.cost > 0

hasSignificantChange(deltaTokens) ==
  deltaTokens.input > 0 \/ deltaTokens.output > 0

\* The row registerProject inserts.
placeholderRow(projectPath, t) ==
  [project_path |-> projectPath,
   started_at |-> t,
   ended_at |-> 0,
   total_input_tokens |-> 0,
   total_output_tokens |-> 0,
   total_cache_creation_tokens |-> 0,
   total_cache_read_tokens |-> 0,
   total_cost_usd |-> 0,
   api_duration_ms |-> 0,
   total_duration_ms |-> 0,
   lines_added |-> 0,
   lines_removed |-> 0,
   web_search_requests |-> 0]

\* Mutant of registerProject: the count of real sessions is not consulted.
registerProjectUnconditional(tbl, projectPath, t) ==
  LET placeholderSessionId == PlaceholderId(projectPath)
  IN IF placeholderSessionId \in DOMAIN tbl
       THEN tbl
       ELSE tbl @@ (placeholderSessionId :> placeholderRow(projectPath, t))

\* registerProject: a placeholder row is inserted when the path has no real
\* session and no placeholder row of its own; INSERT OR IGNORE leaves the
\* table alone when the id is taken (by the placeholder of another path).
registerProject(tbl, projectPath, t) ==
  LET placeholderSessionId == PlaceholderId(projectPath)
      existingSessions ==
        Cardinality({id \in DOMAIN tbl :
                       tbl[id].project_path = projectPath /\ ~IsPlaceholder(id)})
      existing ==
        /\ placeholderSessionId \in DOMAIN tbl
        /\ tbl[placeholderSessionId].project_path = projectPath
  IN IF existingSessions = 0 /\ ~existing /\ placeholderSessionId \notin DOMAIN tbl
       THEN tbl @@ (placeholderSessionId :> placeholderRow(projectPath, t))
       ELSE tbl

\* The store writes of processProject, in program order.
LegacyWrites ==
  <<"getOrCreateSession", "recordSnapshot", "updateSession", "recordConversation">>
LegacyWritePos(w) == CHOOSE i \in 1..Len(LegacyWrites) : LegacyWrites[i] = w
LegacyDone(w, failAt) == failAt = NoFailure \/ LegacyWritePos(w) < LegacyWritePos(failAt)

\* processProject on the state st (the store tables and previousState).
\* failAt names the write that raises (NoFailure: none does).  A raise inside
\* registerProject is caught there and the function goes on; a raise of a
\* later write leaves processProject.
processProject(st, projectPath, projectData, failAt, t) ==
  LET registered == IF failAt = "registerProject"
                      THEN st.sessions
                      ELSE registerProject(st.sessions, projectPath, t)
      raised == IF failAt = "registerProject" THEN NoFailure ELSE failAt
      sessionId == projectData.lastSessionId
      currentState == extractTokenData(projectData)
      hasPrevious == projectPath \in DOMAIN st.prev
      deltaTokens == calculateDeltas(st.prev[projectPath], currentState)
      s1 == IF LegacyDone("getOrCreateSession", raised)
              THEN getOrCreateSession(registered, sessionId, projectPath, t)
              ELSE registered
      s2 == IF LegacyDone("updateSession", raised)
              THEN updateSession(s1, sessionId, projectData, t)
              ELSE s1
  IN IF sessionId = NoSession
       THEN [st EXCEPT !.sessions = registered]
       ELSE [sessions |-> s2,
             raw |-> IF LegacyDone("recordSnapshot", raised)
                       THEN recordSnapshot(st.raw, sessionId, projectPath, projectData, t)
                       ELSE st.raw,
             convs |-> IF /\ hasPrevious
                          /\ hasSignificantChange(deltaTokens)
                          /\ LegacyDone("recordConversation", raised)
                         THEN recordConversation(st.convs, sessionId, deltaTokens)
                         ELSE st.convs,
             prev |-> IF raised = NoFailure
                        THEN [q \in DOMAIN st.prev \cup {projectPath} |->
                                IF q = projectPath THEN currentState ELSE st.prev[q]]
                        ELSE st.prev]

\* The loop of processClaudeConfig over the entries seq; the write failW of
\* project failP raises, and ends the loop in the catch unless it is caught
\* inside registerProject.
RECURSIVE processLoop(_, _, _, _, _)
processLoop(seq, st, failP, failW, t) ==
  IF seq = <<>> THEN st
  ELSE LET projectPath == Head(seq) IN
       IF projectPath = failP /\ failW # "registerProject"
         THEN processProject(st, projectPath, fileProjects[projectPath], failW, t)
         ELSE processLoop(Tail(seq),
                processProject(st, projectPath, fileProjects[projectPath],
                  IF projectPath = failP THEN failW ELSE NoFailure, t),
                failP, failW, t)

LegacyWriteNames == WriteNames \cup {"registerProject"}

\* The failing write of a pass: none, the write inside registerProject for a
\* project of the file, or a later write of a project with a session
\* (recordConversation only where a conversation is recorded).
LegacyFailure(failP, failW) ==
  \/ failP = NoFailure /\ failW = NoFailure /\ UNCHANGED storeFailures
  \/ /\ fileStatus = "ok"
     /\ failW \in LegacyWriteNames
     /\ IF failW = "registerProject"
          THEN failP \in DOMAIN fileProjects
          ELSE failP \in WithSession(fileProjects)
     /\ failW = "recordConversation" =>
          /\ failP \in DOMAIN previousState
          /\ hasSignificantChange(
               calculateDeltas(previousState[failP], extractTokenData(fileProjects[failP])))
     /\ storeFailures < MaxStoreFailures
     /\ storeFailures' = storeFailures + 1

\* processClaudeConfig on the state st, every error caught and logged.
processClaudeConfig(st, failP, failW) ==
  IF fileStatus = "ok"
    THEN processLoop(ObjectEntries(fileProjects), st, failP, failW, now)
    ELSE st

\* discoverCodeProjects: registerProject for every directory of dirs.
RECURSIVE discoverCodeProjects(_, _, _)
discoverCodeProjects(seq, tbl, dirs) ==
  IF seq = <<>> THEN tbl
  ELSE discoverCodeProjects(Tail(seq),
         IF Head(seq) \in dirs THEN registerProject(tbl, Head(seq), now) ELSE tbl,
         dirs)

legacyStore == [sessions |-> sessions, raw |-> session_snapshots,
                convs |-> conversations, prev |-> previousState]

LegacyCommit(st) ==
  /\ sessions' = st.sessions
  /\ session_snapshots' = st.raw
  /\ conversations' = st.convs
  /\ previousState' = st.prev
  /\ now' = IF st.raw # session_snapshots \/ st.sessions # sessions THEN now + 1 ELSE now

robustVars ==
  <<seenWrites, started, exited, registryVars, isProcessing, timerVars, consecutiveErrors,
    cycleVars, removedLog, snapshotsAtLastSuccess, lastPoll>>

\* start(): discoverCodeProjects over the directories dirs, then
\* processClaudeConfig, then the watchers.
LegacyStart(dirs, failP, failW) ==
  /\ ~legacyStarted /\ ~started
  /\ now <= MaxClock
  /\ LegacyFailure(failP, failW)
  /\ LegacyCommit(processClaudeConfig(
       [legacyStore EXCEPT !.sessions = discoverCodeProjects(CodeDirOrder, sessions, dirs)],
       failP, failW))
  /\ legacyStarted' = TRUE
  /\ dbOpen' = TRUE
  /\ UNCHANGED <<fileVars, robustVars>>

\* configWatcher 'change': processClaudeConfig.
LegacyChange(failP, failW) ==
  /\ legacyStarted
  /\ now <= MaxClock
  /\ LegacyFailure(failP, failW)
  /\ LegacyCommit(processClaudeConfig(legacyStore, failP, failW))
  /\ UNCHANGED <<fileVars, robustVars, legacyStarted, dbOpen>>

\* codeWatcher 'addDir': registerProject.
LegacyAddDir(dirPath) ==
  /\ legacyStarted
  /\ now <= MaxClock
  /\ LegacyCommit([legacyStore EXCEPT !.sessions = registerProject(sessions, dirPath, now)])
  /\ UNCHANGED <<fileVars, robustVars, legacyStarted, dbOpen, storeFailures>>

\* SIGINT: the watchers and the store are closed and the process exits; the
\* store stays on disk for the next start.
LegacyStop ==
  /\ legacyStarted
  /\ legacyStarted' = FALSE
  /\ previousState' = <<>>
  /\ dbOpen' = FALSE
  /\ UNCHANGED <<fileVars, robustVars, storeVars, storeFailures, now>>

\* One write of the external writer to the file.
WrittenProjects ==
  {[fileProjects EXCEPT ![p].lastSessionId = sid] :
     p \in DOMAIN fileProjects, sid \in SessionIds \cup {NoSession}}
  \cup {fileProjects @@ (p :> FreshProject(sid)) :
     p \in Projects \ DOMAIN fileProjects, sid \in SessionIds \cup {NoSession}}
  \cup UNION {{[fileProjects EXCEPT ![p][k] = Some(v)] : v \in KeyValues(k)} :
     p \in DOMAIN fileProjects, k \in WriterKeys}
  \cup {[q \in DOMAIN fileProjects \ {p} |-> fileProjects[q]] : p \in DOMAIN fileProjects}

FileWrite ==
  /\ writes < MaxWrites
  /\ \/ \E st \in {"absent", "malformed", "noprojects", "ok"} :
          st # fileStatus /\ fileStatus' = st /\ UNCHANGED fileProjects
     \/ /\ fileStatus = "ok"
        /\ \E np \in WrittenProjects :
             np # fileProjects /\ fileProjects' = np /\ UNCHANGED fileStatus
  /\ writes' = writes + 1
  /\ UNCHANGED trackerVars

LegacyWriter == legacyStarted /\ FileWrite

NextLegacy ==
  \/ LegacyWriter
  \/ \E dirs \in SUBSET CodeDirs :
       \E failP \in Projects \cup {NoFailure}, failW \in LegacyWriteNames \cup {NoFailure} :
         LegacyStart(dirs, failP, failW)
  \/ \E failP \in Projects \cup {NoFailure}, failW \in LegacyWriteNames \cup {NoFailure} :
       LegacyChange(failP, failW)
  \/ \E dirPath \in CodeDirs : LegacyAddDir(dirPath)
  \/ LegacyStop

\* The files the legacy tracker can meet at its first start: those of
\* initialFiles, or one project whose counters are all set.
legacyInitialFiles ==
  initialFiles \cup
  {[status |-> "ok", projects |-> ("p1" :> r)] : r \in CapturedRecords("s1")}
InitLegacy == \E f \in legacyInitialFiles : InitWith(f)
SpecLegacy == InitLegacy /\ [][NextLegacy]_vars

\* ------------------------------------------------------ stops and restarts
\* The robust tracker's process ends between two cycles (SIGINT, the circuit
\* breaker, a kill) and a new one is constructed: everything in memory is as
\* after construction, the file and the store are as they were left, and the
\* clock has moved on.
Restart ==
  /\ started
  /\ pc = "idle"
  /\ now <= MaxClock
  /\ now' = now + 1
  /\ started' = FALSE
  /\ exited' = FALSE
  /\ sessionSnapshots' = <<>>
  /\ activeSessions' = {}
  /\ isProcessing' = FALSE
  /\ pollInterval' = 0
  /\ timers' = {}
  /\ currentInterval' = 0
  /\ consecutiveErrors' = 0
  /\ cycleIdle
  /\ seenWrites' = -1
  /\ removedLog' = {}
  /\ snapshotsAtLastSuccess' = <<>>
  /\ lastPoll' = "none"
  /\ dbOpen' = TRUE
  /\ UNCHANGED <<fileVars, legacyVars, storeFailures, storeVars>>

\* The external writer writes the file while no tracker runs.
StoppedWriter == ~started /\ ~legacyStarted /\ FileWrite

\* Either tracker runs, stops and starts again over the same file and store;
\* one tracker runs at a time.
NextEither ==
  \/ Writer
  \/ ~legacyStarted /\ StartStep
  \/ RunToCompletion /\ PollSourceAbsent
  \/ RunToCompletion /\ PollNoProjects
  \/ RunToCompletion /\ PollSourceMalformed
  \/ RunToCompletion /\ PollReadConfig
  \/ CycleStep
  \/ Restart
  \/ StoppedWriter
  \/ NextLegacy
SpecEither == Init /\ [][NextEither]_vars

\* The source changes only while the robust tracker is stopped.
NextStoppedWrites ==
  \/ StartStep
  \/ RunToCompletion /\ PollSourceAbsent
  \/ RunToCompletion /\ PollNoProjects
  \/ RunToCompletion /\ PollSourceMalformed
  \/ RunToCompletion /\ PollReadConfig
  \/ CycleStep
  \/ Restart
  \/ StoppedWriter
SpecStoppedWrites == InitLegacy /\ [][NextStoppedWrites]_vars

\* ------------------------------------------------------- one run, no restart
\* The writer writes the file before the tracker starts and between its
\* cycles; the tracker starts once and is never stopped.
NextFirstRun ==
  \/ StoppedWriter
  \/ Writer
  \/ StartStep
  \/ RunToCompletion /\ PollSourceAbsent
  \/ RunToCompletion /\ PollNoProjects
  \/ RunToCompletion /\ PollSourceMalformed
  \/ RunToCompletion /\ PollReadConfig
  \/ CycleStep
SpecFirstRun == InitLegacy /\ [][NextFirstRun]_vars

\* ------------------------------------------------------------------ claims
\* Helpers of the claims' formulas.
Last(seq) == seq[Len(seq)]
rawRowsOf(tbl, sessionId) == {i \in 1..Len(tbl) : tbl[i].session_id = sessionId}

\* The registry's baseline of session s moves, in this step, between two
\* snapshots that differ in a tracked counter.
TransitionStored(s) ==
  /\ s \in DOMAIN sessionSnapshots
  /\ s \in DOMAIN sessionSnapshots'
  /\ hasAnyTokenChange(sessionSnapshots[s], sessionSnapshots'[s])

\* C1: every counter transition the tracker observes between two consecutive
\* observations of a session is persisted as exactly one delta record: a step
\* appends a delta record for a session exactly when it moves the session's
\* baseline across a change, and then it appends one.  (A delta record that is
\* appended while the baseline stays is appended again by the next cycle.)
C1_ExactlyOneDeltaPerTransition ==
  [][\A s \in SessionIds :
       conversationCount(conversations', s) - conversationCount(conversations, s)
         = IF TransitionStored(s) THEN 1 ELSE 0]_vars

\* C2: at most one cycle executes at a time: while a cycle is in flight
\* the only steps are its own (it visits its next entry), and a poll that fires
\* meanwhile reads nothing and leaves the parsed config, the registry and the
\* store as they are; isProcessing is set exactly while a cycle is in flight.
C2_OneCycleAtATime ==
  [][/\ (pc = "cycle" /\ pc' = "cycle") =>
          \/ entries # <<>> /\ entries' = Tail(entries) /\ configData' = configData
          \/ UNCHANGED <<configData, entries, currentProjectPaths, isProcessing,
                         sessionSnapshots, activeSessions, sessions, conversations,
                         session_snapshots>>
     /\ isProcessing' = (pc' = "cycle")]_vars

\* C2 witness: a poll has fired and been skipped while a cycle is in flight.
C2_Witness == pc = "cycle" /\ isProcessing /\ lastPoll = "skipped"

\* C3: once consecutiveErrors reaches maxErrors the timer is cleared and the
\* process has shut down, and from then on nothing of the tracker or the store
\* changes, whatever the source becomes.
C3_CircuitBreaker ==
  [][/\ consecutiveErrors' >= maxErrors =>
          exited' /\ timers' = {} /\ ~dbOpen' /\ pc' = "idle"
     /\ exited => UNCHANGED trackerVars]_vars

\* C3 witness: the breaker has tripped and a well-formed source with a session
\* has appeared afterwards.
C3_Witness ==
  /\ consecutiveErrors = maxErrors
  /\ exited
  /\ fileStatus = "ok"
  /\ WithSession(fileProjects) # {}

\* Steps of a poll callback, told by what they do to the state.
\* A cycle raises: the file is malformed, or a store write raises.
FailedCycleStep ==
  /\ started /\ ~exited /\ UNCHANGED fileVars
  /\ \/ pc = "idle" /\ fileStatus = "malformed"
     \/ pc = "cycle" /\ storeFailures' # storeFailures
\* A cycle completes: the file is absent or without projects, or the loop ends.
SuccessfulCycleStep ==
  /\ started /\ ~exited /\ UNCHANGED fileVars
  /\ \/ pc = "idle" /\ fileStatus \in {"absent", "noprojects"}
     \/ pc = "cycle" /\ pc' = "idle" /\ storeFailures' = storeFailures
\* processSession runs for project p and returns.
SessionStep(p) ==
  /\ pc = "cycle" /\ pc' = "cycle"
  /\ entries # <<>> /\ Head(entries) = p /\ entries' = Tail(entries)
  /\ configData[p].lastSessionId # NoSession

\* C4: consecutiveErrors goes up by exactly one in every cycle that raises,
\* is set to zero by every cycle that completes, and changes in no other step.
C4_ConsecutiveErrors ==
  [][/\ IF FailedCycleStep THEN consecutiveErrors' = consecutiveErrors + 1
        ELSE IF SuccessfulCycleStep THEN consecutiveErrors' = 0
        ELSE consecutiveErrors' = consecutiveErrors
     /\ lastPoll' = "ok" => consecutiveErrors' = 0
     /\ lastPoll' = "failed" => consecutiveErrors' >= 1]_vars

\* C4 witness: three cycles in a row have failed and been counted.
C4_Witness == consecutiveErrors = 3 /\ lastPoll = "failed" /\ ~exited

\* C5: the cycle that observes a session identifier for the first time
\* (no snapshot of it in the registry) ensures the session row and appends one
\* raw snapshot and no delta record; a delta record is only ever appended for
\* a session whose previous snapshot is in the registry.
C5_FirstObservation ==
  [][/\ \A p \in Projects :
          (SessionStep(p) /\ configData[p].lastSessionId \notin DOMAIN sessionSnapshots) =>
            LET sid == configData[p].lastSessionId IN
            /\ sid \in DOMAIN sessions'
            /\ Len(session_snapshots') = Len(session_snapshots) + 1
            /\ SubSeq(session_snapshots', 1, Len(session_snapshots)) = session_snapshots
            /\ Last(session_snapshots').session_id = sid
            /\ Last(session_snapshots').project_path = p
            /\ conversations' = conversations
            /\ sid \in DOMAIN sessionSnapshots'
     /\ conversations' # conversations =>
          /\ Len(conversations') = Len(conversations) + 1
          /\ Last(conversations').session_id \in DOMAIN sessionSnapshots]_vars

\* C5 witness: a cycle in flight has observed a session for the first time
\* (its only raw snapshot is the one this cycle appended) and no delta exists.
C5_Witness ==
  /\ pc = "cycle" /\ storeFailures = 0
  /\ \E p \in currentProjectPaths :
       LET sid == configData[p].lastSessionId IN
       /\ sid # NoSession
       /\ sid \in DOMAIN sessions
       /\ sid \in DOMAIN sessionSnapshots
       /\ Cardinality(rawRowsOf(session_snapshots, sid)) = 1
       /\ conversationCount(conversations, sid) = 0

\* The tracked counters of project record d differ from snapshot prev.
CountersDiffer(prev, d) ==
  \/ OrZero(d.lastTotalInputTokens) # prev.inputTokens
  \/ OrZero(d.lastTotalOutputTokens) # prev.outputTokens
  \/ OrZero(d.lastTotalCacheCreationInputTokens) # prev.cacheCreationTokens
  \/ OrZero(d.lastTotalCacheReadInputTokens) # prev.cacheReadTokens
  \/ Abs(OrZero(d.lastCost) - prev.cost) > CostEpsilon
  \/ OrZero(d.lastLinesAdded) # prev.linesAdded
  \/ OrZero(d.lastLinesRemoved) # prev.linesRemoved
  \/ OrZero(d.lastTotalWebSearchRequests) # prev.webSearchRequests

\* The durable totals of session sid are the counters of project record d.
TotalsAre(tbl, sid, d) ==
  /\ sid \in DOMAIN tbl
  /\ tbl[sid].total_input_tokens = OrZero(d.lastTotalInputTokens)
  /\ tbl[sid].total_output_tokens = OrZero(d.lastTotalOutputTokens)
  /\ tbl[sid].total_cache_creation_tokens = OrZero(d.lastTotalCacheCreationInputTokens)
  /\ tbl[sid].total_cache_read_tokens = OrZero(d.lastTotalCacheReadInputTokens)
  /\ tbl[sid].total_cost_usd = OrZero(d.lastCost)
  /\ tbl[sid].api_duration_ms = OrZero(d.lastAPIDuration)
  /\ tbl[sid].total_duration_ms = OrZero(d.lastDuration)
  /\ tbl[sid].lines_added = OrZero(d.lastLinesAdded)
  /\ tbl[sid].lines_removed = OrZero(d.lastLinesRemoved)
  /\ tbl[sid].web_search_requests = OrZero(d.lastTotalWebSearchRequests)

\* Snapshot snap holds the counters of project record d.
SnapshotIs(snap, d) ==
  /\ snap.inputTokens = OrZero(d.lastTotalInputTokens)
  /\ snap.outputTokens = OrZero(d.lastTotalOutputTokens)
  /\ snap.cacheCreationTokens = OrZero(d.lastTotalCacheCreationInputTokens)
  /\ snap.cacheReadTokens = OrZero(d.lastTotalCacheReadInputTokens)
  /\ snap.cost = OrZero(d.lastCost)
  /\ snap.apiDuration = OrZero(d.lastAPIDuration)
  /\ snap.totalDuration = OrZero(d.lastDuration)
  /\ snap.linesAdded = OrZero(d.lastLinesAdded)
  /\ snap.linesRemoved = OrZero(d.lastLinesRemoved)
  /\ snap.webSearchRequests = OrZero(d.lastTotalWebSearchRequests)

\* C6: when the counters of a session differ from its previous observation,
\* the cycle appends exactly one delta record, with the next index, whose five
\* fields are current minus previous, and sets the durable totals to the
\* current values.
C6_DeltaIsDifference ==
  [][\A p \in Projects :
       (/\ SessionStep(p)
        /\ configData[p].lastSessionId \in DOMAIN sessionSnapshots
        /\ CountersDiffer(sessionSnapshots[configData[p].lastSessionId], configData[p])) =>
         LET d == configData[p]
             sid == d.lastSessionId
             prev == sessionSnapshots[sid]
         IN
         /\ conversations' = Append(conversations,
              [session_id |-> sid,
               conversation_index |-> conversationCount(conversations, sid) + 1,
               input_tokens |-> OrZero(d.lastTotalInputTokens) - prev.inputTokens,
               output_tokens |-> OrZero(d.lastTotalOutputTokens) - prev.outputTokens,
               cache_creation_tokens |->
                 OrZero(d.lastTotalCacheCreationInputTokens) - prev.cacheCreationTokens,
               cache_read_tokens |->
                 OrZero(d.lastTotalCacheReadInputTokens) - prev.cacheReadTokens,
               cost_usd |-> OrZero(d.lastCost) - prev.cost])
         /\ TotalsAre(sessions', sid, d)]_vars

\* C6 witness: the input counter went from 0 to 1 between two observations
\* and the store holds the one delta record (input 1, every other field 0)
\* and the totals of the later observation.
C6_Witness ==
  /\ storeFailures = 0
  /\ Len(conversations) = 1
  /\ conversations[1].input_tokens = 1
  /\ conversations[1].output_tokens = 0
  /\ conversations[1].cache_creation_tokens = 0
  /\ conversations[1].cache_read_tokens = 0
  /\ conversations[1].cost_usd = 0
  /\ sessions[conversations[1].session_id].total_input_tokens = 1

\* C7: a cycle over a source that has not changed since the previous
\* successful cycle appends no delta record, and every visit of a project with
\* a session appends exactly one raw snapshot record.
C7_UnchangedSourceNoDelta ==
  [][/\ (pc = "cycle" /\ writes = seenWrites) => conversations' = conversations
     /\ \A p \in Projects :
          SessionStep(p) =>
            /\ Len(session_snapshots') = Len(session_snapshots) + 1
            /\ Last(session_snapshots').project_path = p]_vars

\* The project visited last, in file order, among those of obj carrying sid.
lastCarrier(obj, sid) ==
  LET seq == ObjectEntries(obj)
      at == {i \in 1..Len(seq) : obj[seq[i]].lastSessionId = sid}
  IN seq[CHOOSE i \in at : \A j \in at : j <= i]

\* C8: when a cycle completes, every session it has processed has its
\* durable totals and its registry snapshot equal to the counters of its most
\* recent observation, whether or not a delta record was appended.
C8_TotalsFollowObservation ==
  [][(pc = "cycle" /\ pc' = "idle" /\ storeFailures' = storeFailures) =>
       \A p \in WithSession(configData) :
         LET sid == configData[p].lastSessionId
             d == configData[lastCarrier(configData, sid)]
         IN /\ TotalsAre(sessions', sid, d)
            /\ sid \in DOMAIN sessionSnapshots'
            /\ SnapshotIs(sessionSnapshots'[sid], d)]_vars

\* C8 witness: a cycle has completed after the cost moved within the epsilon:
\* no delta record exists, and totals and registry hold the new cost.
C8_Witness ==
  /\ pc = "idle" /\ lastPoll = "ok" /\ storeFailures = 0
  /\ conversations = <<>>
  /\ \E sid \in DOMAIN sessionSnapshots :
       /\ sid \in DOMAIN sessions
       /\ sessions[sid].total_cost_usd = 1
       /\ sessionSnapshots[sid].cost = 1
       /\ Cardinality(rawRowsOf(session_snapshots, sid)) >= 2

\* C9: when a store write raises while a cycle processes a project, the
\* cycle ends and is counted as failed; the registry entries written for the
\* projects visited earlier stay as they are; nothing is written for the
\* projects not yet visited; polling goes on, and the next cycle visits every
\* project of the file it reads.
C9_StoreFailure ==
  [][/\ (pc = "cycle" /\ storeFailures' # storeFailures) =>
          LET failed == Head(entries)
              fsid == configData[failed].lastSessionId
          IN
          /\ consecutiveErrors' = consecutiveErrors + 1
          /\ pc' = "idle" /\ ~isProcessing'
          /\ ~exited' => timers' # {}
          /\ sessionSnapshots' = sessionSnapshots
          /\ \A q \in currentProjectPaths \cap WithSession(configData) :
               /\ configData[q].lastSessionId \in DOMAIN sessionSnapshots'
               /\ \E r \in currentProjectPaths :
                    /\ configData[r].lastSessionId = configData[q].lastSessionId
                    /\ SnapshotIs(sessionSnapshots'[configData[q].lastSessionId],
                                  configData[r])
          /\ \A i \in (Len(session_snapshots) + 1)..Len(session_snapshots') :
               session_snapshots'[i].project_path = failed
          /\ \A i \in (Len(conversations) + 1)..Len(conversations') :
               conversations'[i].session_id = fsid
          /\ \A sid \in DOMAIN sessions' :
               sid # fsid => sid \in DOMAIN sessions /\ sessions'[sid] = sessions[sid]
     /\ (pc = "idle" /\ pc' = "cycle") =>
          /\ configData' = fileProjects
          /\ entries' = ObjectEntries(fileProjects)]_vars

\* C9 witness: a cycle has just failed on a store write; one project with a
\* session is in the registry and another project with a session is not.
C9_Witness ==
  /\ pc = "idle" /\ lastPoll = "failed" /\ ~exited
  /\ consecutiveErrors = 1 /\ storeFailures = 1
  /\ fileStatus = "ok"
  /\ \E p, q \in WithSession(fileProjects) :
       /\ p # q
       /\ fileProjects[p].lastSessionId \in DOMAIN sessionSnapshots
       /\ fileProjects[q].lastSessionId \notin DOMAIN sessionSnapshots

\* C10: a cycle that finds the file malformed fails and is counted, visits
\* no project, and leaves sessionSnapshots, activeSessions and the store
\* exactly as they were.
C10_MalformedSource ==
  [][(/\ started /\ ~exited /\ UNCHANGED fileVars
      /\ pc = "idle" /\ fileStatus = "malformed") =>
       /\ consecutiveErrors' = consecutiveErrors + 1
       /\ lastPoll' = "failed"
       /\ pc' = "idle" /\ ~isProcessing'
       /\ UNCHANGED <<sessionSnapshots, activeSessions, sessions, conversations,
                      session_snapshots>>]_vars

\* C10 witness: a cycle has failed on a malformed file while the registry
\* and the store were not empty.
C10_Witness ==
  /\ fileStatus = "malformed" /\ lastPoll = "failed" /\ consecutiveErrors >= 1
  /\ activeSessions # {}
  /\ DOMAIN sessionSnapshots # {}
  /\ session_snapshots # <<>>

\* A poll callback runs, between cycles, while the file does not exist.
AbsentCycleStep ==
  /\ started /\ ~exited /\ pc = "idle"
  /\ fileStatus = "absent"
  /\ UNCHANGED fileVars

\* C11: a cycle that finds no file completes without raising: the failure
\* counter is zero after it and not raised, no table and no stored snapshot
\* changes, no project is left active, and the tracker keeps polling; start()
\* on a missing file captures nothing and arms the timer; and whenever the
\* file is there and well-formed between cycles, a poll reads it.
C11_AbsentSource ==
  [][/\ AbsentCycleStep =>
          /\ consecutiveErrors' = 0
          /\ lastPoll' \in {"ok", lastPoll}
          /\ UNCHANGED <<storeVars, sessionSnapshots, storeFailures>>
          /\ activeSessions' = {} \/ UNCHANGED vars
          /\ ~exited' /\ timers' # {} /\ ~isProcessing' /\ pc' = "idle"
     /\ (~started /\ started' /\ fileStatus = "absent") =>
          /\ UNCHANGED <<storeVars, registryVars, consecutiveErrors>>
          /\ timers' # {}
     /\ (started /\ ~exited /\ pc = "idle" /\ fileStatus = "ok" /\ now <= MaxClock) =>
          ENABLED PollReadConfig]_vars

\* C11 witness: sessions were tracked, the file then vanished, and a cycle
\* over the missing file has completed.
C11_Witness ==
  /\ fileStatus = "absent" /\ seenWrites = writes
  /\ lastPoll = "ok" /\ consecutiveErrors = 0
  /\ sessions # <<>> /\ activeSessions = {}
  /\ currentInterval = IdleInterval

\* The interval the adaptive rule asks for, given the active project paths.
IntervalFor(active) == IF active # {} THEN ActiveInterval ELSE IdleInterval

\* C12: after each cycle, failed or not, that leaves the tracker running,
\* one repeating timer is armed and its interval is the active interval if
\* some project path is in activeSessions and the idle interval otherwise.
C12_AdaptiveInterval ==
  [][((FailedCycleStep \/ SuccessfulCycleStep) /\ ~exited') =>
        /\ timers' = {pollInterval'}
        /\ currentInterval' = IntervalFor(activeSessions')]_vars

\* C12 as amended: after each cycle that completes without error one
\* repeating timer is armed and its interval is the active interval if some
\* project path is in activeSessions and the idle interval otherwise, the timer
\* being replaced only when the interval changes; a cycle that fails and
\* leaves the tracker running leaves the timer and its interval as they were.
C12_IntervalAfterCompletedCycle ==
  [][/\ SuccessfulCycleStep =>
          /\ timers' = {pollInterval'}
          /\ currentInterval' = IntervalFor(activeSessions')
          /\ (currentInterval' = currentInterval) = (pollInterval' = pollInterval)
     /\ (FailedCycleStep /\ ~exited') => UNCHANGED timerVars]_vars

\* C12 witness: the only active project lost its session identifier, the
\* cycle that saw it marked it inactive, and the timer was re-armed from the
\* active to the idle interval.
C12_Witness ==
  /\ lastPoll = "ok" /\ pc = "idle" /\ seenWrites = writes
  /\ fileStatus = "ok"
  /\ \E p \in DOMAIN fileProjects :
       /\ fileProjects[p].lastSessionId = NoSession
       /\ \E i \in 1..Len(session_snapshots) : session_snapshots[i].project_path = p
  /\ activeSessions = {}
  /\ currentInterval = IdleInterval
  /\ pollInterval = 2

\* C13: within one cycle every project is compared against the registry as
\* the cycle found it: the previous snapshot that the processing of a project
\* uses is the one stored when the cycle started (none if none was stored), a
\* delta it appends is the difference from that snapshot, and it changes the
\* stored snapshot and the totals of no session but its own.
C13_FrozenRegistry ==
  [][\A p \in Projects :
       SessionStep(p) =>
         LET sid == configData[p].lastSessionId
             used == sessionSnapshotsGet(sessionSnapshots, sid)
             atStart == sessionSnapshotsGet(cycleStartSnapshots, sid)
             current == extractCompleteSnapshot(configData[p], now)
         IN
         /\ used = atStart
         /\ (conversations' # conversations /\ atStart # <<>>) =>
              /\ Last(conversations').input_tokens
                   = current.inputTokens - atStart[1].inputTokens
              /\ Last(conversations').cost_usd = current.cost - atStart[1].cost
         /\ \A s \in DOMAIN sessionSnapshots \ {sid} :
              sessionSnapshots'[s] = sessionSnapshots[s]
         /\ \A s \in DOMAIN sessions \ {sid} : sessions'[s] = sessions[s]]_vars

\* The counters the change test tracks, besides the cost.
TrackedCounts ==
  {"inputTokens", "outputTokens", "cacheCreationTokens", "cacheReadTokens",
   "linesAdded", "linesRemoved", "webSearchRequests"}

\* Some tracked counter differs: a count at all, or the cost by more than the
\* epsilon.
TrackedDiffer(a, b) ==
  \/ \E f \in TrackedCounts : a[f] # b[f]
  \/ a.cost - b.cost > CostEpsilon
  \/ b.cost - a.cost > CostEpsilon

\* C14: hasAnyTokenChange is true exactly when one of the eight tracked
\* counters differs (counts exactly, cost by more than the epsilon), whatever
\* the timestamps and the durations are; an observation of a session already in
\* the registry appends a delta record exactly in that case, and one raw
\* snapshot record in every case.
C14_ChangeDetection ==
  [][\A p \in Projects :
       (SessionStep(p) /\ configData[p].lastSessionId \in DOMAIN sessionSnapshots) =>
         LET previous == sessionSnapshots[configData[p].lastSessionId]
             current == extractCompleteSnapshot(configData[p], now)
         IN
         /\ hasAnyTokenChange(previous, current) = TrackedDiffer(previous, current)
         /\ (Len(conversations') = Len(conversations) + 1) = TrackedDiffer(previous, current)
         /\ (conversations' = conversations) = ~TrackedDiffer(previous, current)
         /\ Len(session_snapshots') = Len(session_snapshots) + 1]_vars

\* C14 witness: the cost moved by no more than the epsilon while every count
\* stayed (timestamp and durations differ): no delta record, one more raw
\* snapshot record.
C14_Witness ==
  /\ pc = "cycle" /\ entries = <<>>
  /\ conversations = <<>>
  /\ Len(session_snapshots) = 2
  /\ session_snapshots[2].cost_usd - session_snapshots[1].cost_usd = CostEpsilon
  /\ session_snapshots[2].raw_data.lastAPIDuration # session_snapshots[1].raw_data.lastAPIDuration
  /\ sessionSnapshots["s1"].timestamp = 2

\* The field of a delta that carries the difference of snapshot field f.
DeltaFieldOf(f) ==
  CASE f = "inputTokens" -> "input"
    [] f = "outputTokens" -> "output"
    [] f = "cacheCreationTokens" -> "cacheCreation"
    [] f = "cacheReadTokens" -> "cacheRead"
    [] OTHER -> f

\* delta.field || 0: a field the delta does not carry counts as zero.
DeltaOrZero(d, f) == IF DeltaFieldOf(f) \in DOMAIN d THEN d[DeltaFieldOf(f)] ELSE 0

\* C15: whenever a delta is computed from the stored snapshot a and the
\* current snapshot b of a session, a.field + delta.field = b.field for each
\* of the eight tracked counters of the snapshot.
C15_DeltaRoundTrip ==
  [][\A p \in Projects :
       (SessionStep(p) /\ conversations' # conversations) =>
         LET a == sessionSnapshots[configData[p].lastSessionId]
             b == extractCompleteSnapshot(configData[p], now)
             d == calculatePreciseDeltas(a, b)
         IN \A f \in TrackedCounts \cup {"cost"} : a[f] + DeltaOrZero(d, f) = b[f]]_vars

\* C16: with a writer that only changes tracked counters of one tracked
\* session and cycles that all succeed, every change is recorded as a delta
\* record: once a completed cycle has read the latest write, the store holds
\* as many delta records as the writer has made changes.
C16_EveryChangeRecorded ==
  (started /\ pc = "idle" /\ lastPoll = "ok" /\ seenWrites = writes) =>
     Len(conversations) = writes

\* No two entries of the reading obj carry the same session identifier.
NoSharedSession(obj) ==
  \A p, q \in WithSession(obj) :
    p # q => obj[p].lastSessionId # obj[q].lastSessionId

RawRecordOf(sid, snap) ==
  \E i \in 1..Len(session_snapshots) :
    /\ session_snapshots[i].session_id = sid
    /\ session_snapshots[i].timestamp = snap.timestamp
    /\ session_snapshots[i].input_tokens = snap.inputTokens
    /\ session_snapshots[i].cost_usd = snap.cost

C18_ActiveSessions ==
  [][/\ (SuccessfulCycleStep /\ pc = "cycle") =>
          /\ activeSessions' = WithSession(configData)
          /\ UNCHANGED storeVars
     /\ (SuccessfulCycleStep /\ pc = "idle") =>
          /\ activeSessions' = {}
          /\ UNCHANGED storeVars
     /\ (started /\ ~(activeSessions \subseteq activeSessions')) =>
          UNCHANGED storeVars]_vars

\* C18 witness: a cycle has completed that dropped a project which was
\* tracked before and kept another one active; the rows of the dropped
\* project are still in the store.
C18_Witness ==
  /\ pc = "idle" /\ lastPoll = "ok" /\ seenWrites = writes
  /\ fileStatus = "ok"
  /\ activeSessions = WithSession(fileProjects)
  /\ activeSessions # {}
  /\ \E i \in 1..Len(session_snapshots) :
       /\ session_snapshots[i].project_path \notin activeSessions
       /\ session_snapshots[i].session_id \in DOMAIN sessions

\* C19: every project path that is active when a cycle starts and not
\* active when it has completed is logged as removed by that cycle, and the
\* step that removes it writes nothing to the store: whether the entry is gone
\* from the file, has lost its session identifier, or the file is absent or
\* holds no projects.
C19_SessionEndedLogged ==
  [][/\ (SuccessfulCycleStep /\ pc = "cycle") =>
          \A p \in cycleStartActive \ activeSessions' : p \in removedLog'
     /\ (SuccessfulCycleStep /\ pc = "idle") =>
          \A p \in activeSessions \ activeSessions' : p \in removedLog'
     /\ (started /\ ~(activeSessions \subseteq activeSessions')) =>
          UNCHANGED storeVars]_vars

\* A cycle raises at the store call that follows getOrCreateSession (or at
\* getOrCreateSession itself) while processing the entry of session sid.
RaisedAfterGetOrCreate(sid) ==
  /\ pc = "cycle" /\ entries # <<>>
  /\ configData[Head(entries)].lastSessionId = sid
  /\ storeFailures' # storeFailures
  /\ session_snapshots' = session_snapshots

\* C20: getOrCreateSession inserts a row only for a session id that has none;
\* for an existing session, whatever the project path of the call, no step
\* removes the row or changes its creation timestamp or project path, and a
\* call that is followed by no other store write leaves the whole row
\* (totals included) as it was.
C20_CreateIfAbsent ==
  [][/\ \A s \in DOMAIN sessions :
          /\ s \in DOMAIN sessions'
          /\ sessions'[s].started_at = sessions[s].started_at
          /\ sessions'[s].project_path = sessions[s].project_path
     /\ \A s \in DOMAIN sessions' \ DOMAIN sessions :
          /\ sessions'[s].started_at = now
          /\ \/ ~started /\ \E p \in WithSession(fileProjects) :
                  /\ fileProjects[p].lastSessionId = s
                  /\ sessions'[s].project_path = p
             \/ /\ pc = "cycle" /\ entries # <<>>
                /\ configData[Head(entries)].lastSessionId = s
                /\ sessions'[s].project_path = Head(entries)
     /\ \A sid \in SessionIds :
          RaisedAfterGetOrCreate(sid) =>
            \A s \in DOMAIN sessions : sessions'[s] = sessions[s]]_vars

\* A session row that a later call found: a raw snapshot of the session was
\* stored after the row's creation under another project path, and the row
\* still has the path and the timestamp of its creation.
C20_Witness ==
  \E s \in DOMAIN sessions :
    \E i \in 1..Len(session_snapshots) :
      /\ session_snapshots[i].session_id = s
      /\ session_snapshots[i].timestamp > sessions[s].started_at
      /\ session_snapshots[i].project_path # sessions[s].project_path
      /\ sessions[s].total_input_tokens > 0

\* The positions in conversations of the delta records of session sid.
ConversationsOf(sid) == {i \in 1..Len(conversations) : conversations[i].session_id = sid}

\* C21: for each session the conversation_index values of its delta records
\* are 1, 2, ..., n in append order: the k-th record appended for the session
\* carries index k, so there is no duplicate and no gap.
C21_ConversationIndex ==
  \A sid \in SessionIds :
    \A i \in ConversationsOf(sid) :
      conversations[i].conversation_index =
        Cardinality({j \in ConversationsOf(sid) : j <= i})

\* Two sessions have delta records, appended in turn.
C21_Witness ==
  /\ Len(conversations) >= 2
  /\ \E i, j \in 1..Len(conversations) :
       /\ i < j
       /\ conversations[i].session_id # conversations[j].session_id

\* The legacy tracker appends delta records in this step.
LegacyAppends == legacyStarted' /\ Len(conversations') > Len(conversations)
\* The difference cur - prev floored at zero.
Floored(cur, prev) == IF cur > prev THEN cur - prev ELSE 0

\* C27: every delta record the legacy tracker appends carries, for input,
\* output, cacheCreation, cacheRead and cost, the difference between the
\* project's counters in the file and in previousState floored at zero; no
\* field of a delta record is negative.
C27_ClampedDeltas ==
  [][LegacyAppends =>
       \A i \in (Len(conversations) + 1)..Len(conversations') :
         LET row == conversations'[i] IN
         /\ row.input_tokens >= 0 /\ row.output_tokens >= 0
         /\ row.cache_creation_tokens >= 0 /\ row.cache_read_tokens >= 0
         /\ row.cost_usd >= 0
         /\ \E p \in DOMAIN fileProjects \cap DOMAIN previousState :
              LET d == fileProjects[p]
                  prev == previousState[p]
              IN /\ row.session_id = d.lastSessionId
                 /\ row.input_tokens = Floored(OrZero(d.lastTotalInputTokens), prev.inputTokens)
                 /\ row.output_tokens = Floored(OrZero(d.lastTotalOutputTokens), prev.outputTokens)
                 /\ row.cache_creation_tokens =
                      Floored(OrZero(d.lastTotalCacheCreationInputTokens), prev.cacheCreationTokens)
                 /\ row.cache_read_tokens =
                      Floored(OrZero(d.lastTotalCacheReadInputTokens), prev.cacheReadTokens)
                 /\ row.cost_usd = Floored(OrZero(d.lastCost), prev.cost)]_vars

\* A delta record was appended by a pass that saw the input go up and the
\* cost go down: its cost is zero.
C27_Witness ==
  /\ legacyStarted
  /\ conversations # <<>>
  /\ conversations[Len(conversations)].cost_usd = 0
  /\ conversations[Len(conversations)].input_tokens > 0
  /\ \E i, j \in 1..Len(session_snapshots) :
       /\ i < j /\ j = Len(session_snapshots)
       /\ session_snapshots[i].session_id = session_snapshots[j].session_id
       /\ session_snapshots[j].input_tokens > session_snapshots[i].input_tokens
       /\ session_snapshots[j].cost_usd < session_snapshots[i].cost_usd

\* A pass of the legacy tracker over a readable file, no store write raising.
LegacyPassStep ==
  /\ legacyStarted /\ legacyStarted'
  /\ fileStatus = "ok" /\ UNCHANGED fileVars
  /\ storeFailures' = storeFailures
  /\ previousState' # previousState \/ session_snapshots' # session_snapshots
\* Neither the input nor the output counter of project p is above previousState.
NoNewInputOutput(p) ==
  /\ OrZero(fileProjects[p].lastTotalInputTokens) <= previousState[p].inputTokens
  /\ OrZero(fileProjects[p].lastTotalOutputTokens) <= previousState[p].outputTokens

\* C28: the legacy tracker appends a delta record only with an input or an
\* output delta above zero: a pass in which no project's input or output
\* counter went up (whatever cache tokens and cost did) appends no delta
\* record, while it still stores a raw snapshot of every project with a
\* session and sets the totals of every such session from the file.
C28_SignificantChangeOnly ==
  [][/\ LegacyAppends =>
          \A i \in (Len(conversations) + 1)..Len(conversations') :
            conversations'[i].input_tokens > 0 \/ conversations'[i].output_tokens > 0
     /\ LegacyPassStep =>
          /\ (\A p \in WithSession(fileProjects) \cap DOMAIN previousState :
                NoNewInputOutput(p)) => conversations' = conversations
          /\ \A p \in WithSession(fileProjects) :
               /\ \E i \in (Len(session_snapshots) + 1)..Len(session_snapshots') :
                    /\ session_snapshots'[i].project_path = p
                    /\ session_snapshots'[i].raw_data = fileProjects[p]
               /\ \E q \in WithSession(fileProjects) :
                    LET sid == fileProjects[p].lastSessionId IN
                    /\ fileProjects[q].lastSessionId = sid
                    /\ sid \in DOMAIN sessions'
                    /\ sessions'[sid].total_cost_usd = OrZero(fileProjects[q].lastCost)
                    /\ sessions'[sid].total_input_tokens =
                         OrZero(fileProjects[q].lastTotalInputTokens)]_vars

\* After a start and a pass in which only the cost of a project went up: two
\* raw snapshots that differ in cost only, the new total, and no delta record.
C28_Witness ==
  /\ legacyStarted
  /\ conversations = <<>>
  /\ Len(session_snapshots) = 2
  /\ session_snapshots[1].session_id = session_snapshots[2].session_id
  /\ session_snapshots[1].project_path = session_snapshots[2].project_path
  /\ session_snapshots[2].project_path \in DOMAIN previousState
  /\ session_snapshots[2].input_tokens = session_snapshots[1].input_tokens
  /\ session_snapshots[2].cost_usd > session_snapshots[1].cost_usd
  /\ sessions[session_snapshots[2].session_id].total_cost_usd = session_snapshots[2].cost_usd

\* The placeholder rows and the real session rows of table tbl for a path.
PlaceholdersOf(tbl, path) ==
  {id \in DOMAIN tbl : IsPlaceholder(id) /\ tbl[id].project_path = path}
RealSessionsOf(tbl, path) ==
  {id \in DOMAIN tbl : ~IsPlaceholder(id) /\ tbl[id].project_path = path}

\* C29: a placeholder row appears only for a path that has, at that moment,
\* no real session row and no placeholder row, and under the placeholder id
\* of that path; no step changes or removes a placeholder row, also after a
\* real session of its path exists; no path ever has two placeholder rows.
C29_PlaceholderSessions ==
  [][/\ \A id \in DOMAIN sessions' \ DOMAIN sessions :
          IsPlaceholder(id) =>
            LET path == sessions'[id].project_path IN
            /\ id = PlaceholderId(path)
            /\ RealSessionsOf(sessions, path) = {}
            /\ PlaceholdersOf(sessions, path) = {}
     /\ \A id \in DOMAIN sessions :
          IsPlaceholder(id) => id \in DOMAIN sessions' /\ sessions'[id] = sessions[id]
     /\ \A path \in LegacyPaths : Cardinality(PlaceholdersOf(sessions', path)) <= 1]_vars

\* registerProject has been called for a path that has a real session and no
\* placeholder (two passes have stored raw snapshots of it), and for another
\* path whose placeholder stays beside its real session.
C29_Witness ==
  /\ legacyStarted
  /\ \E path \in Projects :
       /\ RealSessionsOf(sessions, path) # {}
       /\ PlaceholdersOf(sessions, path) = {}
       /\ Cardinality({i \in 1..Len(session_snapshots) :
                         session_snapshots[i].project_path = path}) >= 2
  /\ \E path \in Projects :
       /\ RealSessionsOf(sessions, path) # {}
       /\ PlaceholdersOf(sessions, path) # {}

\* Sequence a is an initial part of sequence b.
IsPrefix(a, b) == Len(a) <= Len(b) /\ SubSeq(b, 1, Len(a)) = a

\* C22: no step of either tracker (start, cycle or pass, failure, stop and
\* restart) removes or changes a delta record or a raw snapshot record, or
\* removes a session row: the histories before the step are initial parts of
\* the histories after it, and the set of session identifiers only grows.
C22_AppendOnly ==
  [][/\ IsPrefix(conversations, conversations')
     /\ IsPrefix(session_snapshots, session_snapshots')
     /\ DOMAIN sessions \subseteq DOMAIN sessions']_vars

\* The robust tracker has completed a cycle over a store the legacy tracker
\* wrote before it was stopped, a store write having raised on the way.
C22_Witness ==
  /\ started /\ lastPoll = "ok"
  /\ storeFailures >= 1
  /\ \E id \in DOMAIN sessions : IsPlaceholder(id)
  /\ conversations # <<>>
  /\ Len(session_snapshots) >= 3

\* C23: with a source that changes only while the tracker is stopped, no
\* delta record is ever appended: start() takes each session's baseline from
\* the file and appends nothing, and the cycles that follow find no change.
C23_NoDeltaForStoppedChange ==
  [][conversations' = conversations]_vars

\* C26: after start() the repeating timer is replaced only by a cycle that
\* completes with a computed interval different from the current one, which
\* clears the old timer and arms one new timer at the computed interval; a
\* cycle that completes with the computed interval equal to the current one
\* leaves the timer, its handle and the interval untouched.
C26_LazyRearm ==
  [][/\ (started /\ pollInterval' # pollInterval) =>
          /\ SuccessfulCycleStep
          /\ IntervalFor(activeSessions') # currentInterval
          /\ currentInterval' = IntervalFor(activeSessions')
          /\ timers' = (timers \ {pollInterval}) \cup {pollInterval'}
     /\ (SuccessfulCycleStep /\ IntervalFor(activeSessions') = currentInterval) =>
          UNCHANGED timerVars]_vars

\* A cycle over an active session has completed and the timer armed by
\* start() is still the one in place.
C26_Witness ==
  /\ started /\ ~exited
  /\ pc = "idle" /\ lastPoll = "ok"
  /\ activeSessions # {}
  /\ now >= 2
  /\ pollInterval = 1 /\ timers = {1}
  /\ currentInterval = ActiveInterval

\* C24: between two cycles of the running tracker shutdown() can always be
\* invoked; the step that invokes it clears the armed timer and closes the
\* store; and once it has been invoked no cycle starts, no store row is
\* written, and the tracker stays shut down.
C24_Shutdown ==
  [][/\ (started /\ ~exited /\ pc = "idle") => ENABLED Shutdown
     /\ (~exited /\ exited') =>
          /\ pollInterval \notin timers'
          /\ timers' = {}
          /\ dbOpen' = FALSE
     /\ exited =>
          /\ exited'
          /\ UNCHANGED <<storeVars, registryVars, isProcessing, cycleVars, timerVars, dbOpen>>]_vars

\* The user has interrupted a tracker with an active session while a write
\* of the source was still unread: the timer is gone and the store is closed.
C24_Witness ==
  /\ started /\ exited
  /\ consecutiveErrors < maxErrors
  /\ activeSessions # {}
  /\ fileStatus = "ok"
  /\ seenWrites < writes
  /\ timers = {}
  /\ ~dbOpen

\* The tracked counters that are smaller in snapshot cur than in snapshot
\* prev (the cost by more than the epsilon).
SmallerCounters(prev, cur) ==
  {f \in TrackedCounts : cur[f] < prev[f]}
  \cup (IF prev.cost - cur.cost > CostEpsilon THEN {"cost"} ELSE {})

\* Delta record row carries the value v for the snapshot counter f.
RowCarries(row, f, v) ==
  CASE f = "inputTokens" -> row.input_tokens = v
    [] f = "outputTokens" -> row.output_tokens = v
    [] f = "cacheCreationTokens" -> row.cache_creation_tokens = v
    [] f = "cacheReadTokens" -> row.cache_read_tokens = v
    [] f = "cost" -> row.cost_usd = v
    [] OTHER -> FALSE

\* C25: when the observation of a session already in the registry has
\* counters smaller than the stored snapshot, processing it does not raise and
\* appends one delta record that carries, for each smaller counter, the
\* negative difference current minus previous.
C25_NegativeDeltaPersisted ==
  [][\A p \in Projects :
       (/\ pc = "cycle" /\ entries # <<>> /\ Head(entries) = p
        /\ configData[p].lastSessionId \in DOMAIN sessionSnapshots
        /\ SmallerCounters(sessionSnapshots[configData[p].lastSessionId],
                           extractCompleteSnapshot(configData[p], now)) # {}) =>
         LET prev == sessionSnapshots[configData[p].lastSessionId]
             cur == extractCompleteSnapshot(configData[p], now)
         IN /\ ENABLED ProcessEntry
            /\ SessionStep(p) =>
                 /\ Len(conversations') = Len(conversations) + 1
                 /\ \A f \in SmallerCounters(prev, cur) :
                      RowCarries(Last(conversations'), f, cur[f] - prev[f])]_vars

\* C30: no step of the running tracker removes a session identifier from
\* the registry or changes the snapshot stored for a session it is not
\* processing, whether or not a project still carries the identifier; and
\* when a project carrying a stored identifier is processed, the change test
\* and the delta are taken against the snapshot stored for that identifier.
C30_RegistryNeverEvicts ==
  [][/\ \A s \in DOMAIN sessionSnapshots :
          /\ s \in DOMAIN sessionSnapshots'
          /\ (\A p \in Projects : ~(SessionStep(p) /\ configData[p].lastSessionId = s)) =>
                sessionSnapshots'[s] = sessionSnapshots[s]
     /\ \A p \in Projects :
          (SessionStep(p) /\ configData[p].lastSessionId \in DOMAIN sessionSnapshots) =>
            LET sid == configData[p].lastSessionId
                stored == sessionSnapshots[sid]
                current == extractCompleteSnapshot(configData[p], now)
            IN conversations' =
                 IF TrackedDiffer(stored, current)
                   THEN Append(conversations,
                          [session_id |-> sid,
                           conversation_index |-> conversationCount(conversations, sid) + 1,
                           input_tokens |-> current.inputTokens - stored.inputTokens,
                           output_tokens |-> current.outputTokens - stored.outputTokens,
                           cache_creation_tokens |->
                             current.cacheCreationTokens - stored.cacheCreationTokens,
                           cache_read_tokens |->
                             current.cacheReadTokens - stored.cacheReadTokens,
                           cost_usd |-> current.cost - stored.cost])
                   ELSE conversations]_vars

\* A project went from one session to another and back, each observed by a
\* cycle or by start(); the registry holds both, though no project carries
\* the second any more.
C30_Witness ==
  /\ started /\ pc = "idle" /\ lastPoll = "ok"
  /\ \E s \in DOMAIN sessionSnapshots :
       \A p \in DOMAIN fileProjects : fileProjects[p].lastSessionId # s
  /\ \E i, j, k \in 1..Len(session_snapshots) :
       /\ i < j /\ j < k
       /\ session_snapshots[i].project_path = session_snapshots[j].project_path
       /\ session_snapshots[j].project_path = session_snapshots[k].project_path
       /\ session_snapshots[i].session_id = session_snapshots[k].session_id
       /\ session_snapshots[i].session_id # session_snapshots[j].session_id

\* C31: every raw snapshot record and every delta record in the store refers
\* to a session identifier for which a session row exists, after any sequence
\* of cycles, passes, failures, stops and restarts of either tracker.
SessionRowExists(tbl) ==
  \A i \in 1..Len(tbl) : tbl[i].session_id \in DOMAIN sessions
C31_RecordsHaveSessionRow ==
  /\ SessionRowExists(session_snapshots)
  /\ SessionRowExists(conversations)
\* A store write has raised, and the store holds raw snapshots of two sessions
\* and a delta record.
C31_Witness ==
  /\ storeFailures > 0
  /\ {session_snapshots[i].session_id : i \in 1..Len(session_snapshots)} = SessionIds
  /\ conversations # <<>>

\* C32: after a pass of the legacy tracker in which no store write raises,
\* every project path handed to registerProject (the directories discovered
\* under the code base path, the added directory, the projects of the config
\* file) has a session row whose project_path is that path, whatever first
\* bytes the paths share.
Registered(tbl, projectPath) ==
  \E id \in DOMAIN tbl : tbl[id].project_path = projectPath
ConfigPaths == IF fileStatus = "ok" THEN DOMAIN fileProjects ELSE {}
C32_EveryProjectRegistered ==
  [][/\ \A dirs \in SUBSET CodeDirs :
          LegacyStart(dirs, NoFailure, NoFailure) =>
            \A p \in dirs \cup ConfigPaths : Registered(sessions', p)
     /\ LegacyChange(NoFailure, NoFailure) =>
          \A p \in ConfigPaths : Registered(sessions', p)
     /\ \A dirPath \in CodeDirs :
          LegacyAddDir(dirPath) => Registered(sessions', dirPath)]_vars

\* C33: isProcessing is false whenever no cycle is executing, however the
\* latest cycle ended (completion, early return, raised error), so the guard
\* of processAllSessions never skips a poll that finds no cycle in flight.
C33_IsProcessingReset ==
  pc = "idle" => ~isProcessing
\* The latest poll ended in a raised error, and the cycle of the next poll
\* is executing.
C33_Witness ==
  /\ lastPoll = "failed"
  /\ consecutiveErrors > 0
  /\ pc = "cycle"
  /\ isProcessing

\* The four integer token counters: the snapshot field, the column of the
\* delta and raw snapshot records, and the column of the session totals.
TokenCounters ==
  {[snap |-> "inputTokens", col |-> "input_tokens", total |-> "total_input_tokens"],
   [snap |-> "outputTokens", col |-> "output_tokens", total |-> "total_output_tokens"],
   [snap |-> "cacheCreationTokens", col |-> "cache_creation_tokens",
    total |-> "total_cache_creation_tokens"],
   [snap |-> "cacheReadTokens", col |-> "cache_read_tokens",
    total |-> "total_cache_read_tokens"]}

\* The sum of column col over the rows of session sid in tbl.
RECURSIVE SumOf(_, _, _)
SumOf(tbl, sid, col) ==
  IF tbl = <<>> THEN 0
  ELSE (IF Head(tbl).session_id = sid THEN Head(tbl)[col] ELSE 0)
       + SumOf(Tail(tbl), sid, col)

\* The first raw snapshot record of session sid: its first observation.
FirstRawOf(tbl, sid) ==
  tbl[CHOOSE i \in rawRowsOf(tbl, sid) : \A j \in rawRowsOf(tbl, sid) : i <= j]

\* C34 as stated: without store failures (and without a restart), for each
\* session and each of the four token counters the sum of the field over the
\* session's delta records equals the durable total minus the counter's value
\* at the session's first observation.
C34_DeltaSumsMatchTotals ==
  storeFailures = 0 =>
    \A sid \in DOMAIN sessions : \A c \in TokenCounters :
      rawRowsOf(session_snapshots, sid) # {} =>
        SumOf(conversations, sid, c.col)
          = sessions[sid][c.total] - FirstRawOf(session_snapshots, sid)[c.col]

\* The part of session sid's durable total of counter c that its delta
\* records do not account for.
Unaccounted(tblSessions, tblConversations, sid, c) ==
  tblSessions[sid][c.total] - SumOf(tblConversations, sid, c.col)

\* C34 (amended): without store failures and without a restart, the first
\* cycle step that processes a session leaves, for each of the four token
\* counters, durable total minus sum of the session's delta records equal to
\* the session's baseline - the value start() left in the registry for that
\* identifier or, if the registry held none, the value observed in that step -
\* and no later step changes that difference.
C34_DeltaSumsFromBaseline ==
  [][storeFailures' = 0 =>
       \A sid \in DOMAIN sessions' : \A c \in TokenCounters :
         IF sid \in DOMAIN sessions /\ sessions[sid].ended_at # 0
           THEN Unaccounted(sessions', conversations', sid, c)
                  = Unaccounted(sessions, conversations, sid, c)
           ELSE sessions'[sid].ended_at # 0 =>
                  Unaccounted(sessions', conversations', sid, c)
                    = IF sid \in DOMAIN sessionSnapshots
                        THEN sessionSnapshots[sid][c.snap]
                        ELSE sessions'[sid][c.total]]_vars
\* No store write has raised, and a session that start() captured with a
\* non-zero input counter has a delta record that raises it and one that
\* lowers it.
C34_Witness ==
  /\ storeFailures = 0
  /\ "s1" \in DOMAIN sessions
  /\ FirstRawOf(session_snapshots, "s1").input_tokens > 0
  /\ \E i, j \in 1..Len(conversations) :
       /\ conversations[i].session_id = "s1" /\ conversations[i].input_tokens > 0
       /\ conversations[j].session_id = "s1" /\ conversations[j].input_tokens < 0

C36_SameSessionDeltas ==
  [][LegacyAppends =>
       \A i \in (Len(conversations) + 1)..Len(conversations') :
         LET row == conversations'[i] IN
         \E p \in DOMAIN fileProjects \cap DOMAIN previousState :
           LET d == fileProjects[p]
               prev == previousState[p]
           IN /\ row.session_id = d.lastSessionId
              /\ prev.sessionId = row.session_id
              /\ row.input_tokens = Floored(OrZero(d.lastTotalInputTokens), prev.inputTokens)
              /\ row.output_tokens = Floored(OrZero(d.lastTotalOutputTokens), prev.outputTokens)
              /\ row.cache_creation_tokens =
                   Floored(OrZero(d.lastTotalCacheCreationInputTokens), prev.cacheCreationTokens)
              /\ row.cache_read_tokens =
                   Floored(OrZero(d.lastTotalCacheReadInputTokens), prev.cacheReadTokens)
              /\ row.cost_usd = Floored(OrZero(d.lastCost), prev.cost)]_vars

\* C37: every delta record the robust tracker has appended has a non-zero
\* field among input, output, cacheCreation, cacheRead and cost.
C37_NoEmptyDelta ==
  \A i \in 1..Len(conversations) :
    \/ conversations[i].input_tokens # 0
    \/ conversations[i].output_tokens # 0
    \/ conversations[i].cache_creation_tokens # 0
    \/ conversations[i].cache_read_tokens # 0
    \/ conversations[i].cost_usd # 0

C39_OneTimerArmed ==
  (started /\ ~exited) =>
    /\ pollInterval # 0
    /\ timers = {pollInterval}
\* The timer has been re-armed at least twice since start() armed it, and a
\* completed poll was the last to run.
C39_Witness ==
  /\ started /\ ~exited
  /\ pollInterval >= 3
  /\ lastPoll = "ok"
  /\ pc = "idle"
  /\ currentInterval = ActiveInterval

====
